---- MODULE Spec2Model ----
(***************************************************************************)
(* A model of the ACME client core of package acmeapi (src/acmeapi/api.go): *)
(* the HTTP transactor doReqEx with its nonce source, the directory cache,  *)
(* registration upsert, authorization and challenge loading, the            *)
(* certificate chain walk, the WaitLoad* polling primitives and revocation. *)
(*                                                                         *)
(* Tasks are the goroutines of callers sharing one Client.  A task runs one *)
(* API method at a time; a method is cut into steps at its network round    *)
(* trips and at its accesses to state shared with other goroutines.  The    *)
(* ACME server, the clock and context cancellation are the environment.     *)
(***************************************************************************)
EXTENDS Integers, Sequences, FiniteSets, TLC

(***************************************************************************)
(* Bounds of the model.                                                     *)
(***************************************************************************)
NumTasks == 2
MaxOps == 2
MaxClock == 3
MaxChain == 3
MaxLog == 5

Tasks == 1..NumTasks

(***************************************************************************)
(* URLs.  A URL is the pair of its scheme and the rest of it; the scheme "" *)
(* is a relative reference (or the empty string) and the scheme "%" stands  *)
(* for a string url.Parse rejects.                                          *)
(***************************************************************************)
U(s, r) == [scheme |-> s, rest |-> r]
EmptyURL == U("", "")
NoLink == U("none", "")

LEStagingURL == U("https", "acme-staging.api.letsencrypt.org/directory")
DefaultDirectoryURL == LEStagingURL

Parses(u) == u.scheme # "%"

NoKey == "nil"
NoErr == ""
NoRes == [nil |-> TRUE]
NoDir == [nil |-> TRUE]
NilCombinations == [nil |-> TRUE, v |-> <<>>]

VARIABLES
  dir,            \* Client.dir
  AccountInfo,    \* Client.AccountInfo
  DirectoryURL,   \* Client.DirectoryURL
  pool,           \* Client.nonceSource: the nonces held
  TestingNoTLS,   \* the package variable TestingNoTLS
  task,           \* each task's position in the method it runs, and its locals
  az,             \* each task's Authorization object
  ch,             \* each task's Challenge object
  crt,            \* each task's Certificate object
  ctxDone,        \* whether each task's context is cancelled
  clock,          \* time.Now(), in seconds
  server,         \* the server: nonces issued so far, `up` links of its certificates
  signedWith,     \* history: the nonces that signed a request, in signing order
  netlog          \* history: the requests handed to the HTTP client, per task, for the running method

vars == <<dir, AccountInfo, DirectoryURL, pool, TestingNoTLS, task, az, ch, crt,
          ctxDone, clock, server, signedWith, netlog>>

(***************************************************************************)
(* Keys.  algorithmFromKey maps the key material to a JWS algorithm, ""     *)
(* being its error result.                                                  *)
(***************************************************************************)
algorithmFromKey(key) ==
  CASE key = "rsa" -> "RS256"
    [] key = "ec-p256" -> "ES256"
    [] key = "ec-p384" -> "ES384"
    [] key = "ec-p521" -> "ES512"
    [] OTHER -> ""

(***************************************************************************)
(* ValidURL, and the rewriting doReqEx applies under TestingNoTLS.          *)
(***************************************************************************)
\* As ValidURL, but any URL that parses is accepted.
ValidURLAnyScheme(u) == Parses(u)

ValidURL(u) ==
  Parses(u) /\ (u.scheme = "https" \/ (TestingNoTLS /\ u.scheme = "http"))

RewriteNoTLS(u) ==
  IF TestingNoTLS /\ u.scheme = "https" THEN U("http", u.rest) ELSE u

(***************************************************************************)
(* HTTP responses.  nonce is the Replay-Nonce header (0: no header); up and *)
(* tos are the Link header's rel="up" and rel="terms-of-service" entries;   *)
(* retry is the Retry-After header; body is the decoded shape of the body.  *)
(***************************************************************************)
JSON == "application/json"
ProblemJSON == "application/problem+json"
PkixCert == "application/pkix-cert"

R(status, ct, nonce, loc, up, tos, retry, body) ==
  [status |-> status, ct |-> ct, nonce |-> nonce, loc |-> loc, up |-> up,
   tos |-> tos, retry |-> retry, body |-> body]

RetryAbsent == [kind |-> "absent", n |-> 0]
RetryInt(n) == [kind |-> "int", n |-> n]
RetryDate(t) == [kind |-> "date", n |-> t]
RetryJunk == [kind |-> "junk", n |-> 0]
\* A decimal integer of 2^31 or more: ParseUint(v, 10, 31) fails with a range
\* error, and the value is no date either.
RetryTooBig == [kind |-> "toobig", n |-> 0]

(***************************************************************************)
(* JSON bodies.  kind "syntax" is a body that is not a JSON value: Decode   *)
(* fails before storing anything.  In an object a member is absent, has a   *)
(* value of the wrong JSON type (Decode skips it, goes on, and returns an   *)
(* UnmarshalTypeError at the end) or has a value.                           *)
(***************************************************************************)
AbsentURL == U("absent", "")
WrongTypeURL == U("wrongtype", "")
Member(old, m) == IF m \in {AbsentURL, WrongTypeURL} THEN old ELSE m

SyntaxBody == [kind |-> "syntax"]
NoBody == [kind |-> "none"]

(***************************************************************************)
(* The nonce source (nonce.go is not among the sources; it is modelled      *)
(* from the specification's section 4.1): a set of nonces under a lock.     *)
(***************************************************************************)
AddNonce(p, n) == p \cup {n}
getNonce(p, n) == p \ {n}

(***************************************************************************)
(* A task.                                                                  *)
(***************************************************************************)
NoPayload == [resource |-> "", agreement |-> EmptyURL]
Payload(resource) == [resource |-> resource, agreement |-> EmptyURL]
NoReq == [method |-> "", url |-> EmptyURL, key |-> NoKey, v |-> NoPayload]

IdleTask ==
  [op |-> "none", site |-> "none", ph |-> "idle", req |-> NoReq, nonce |-> 0,
   taken |-> 0, added |-> 0, replay |-> 0, got |-> NoRes, res |-> NoRes, err |-> NoErr,
   result |-> "none", key |-> NoKey, arg |-> "", regURI |-> EmptyURL,
   agreement |-> EmptyURL, required |-> EmptyURL, retry0 |-> RetryAbsent,
   due |-> 0, timer |-> 0, woke |-> "", entered |-> 0, blocked |-> FALSE,
   sentAt |-> 0, carried |-> NilCombinations, nops |-> 0]

Wire(tk) ==
  [method |-> tk.req.method, url |-> tk.req.url, nonce |-> tk.nonce,
   key |-> IF tk.nonce = 0 THEN NoKey ELSE tk.req.key, v |-> tk.req.v]

\* The task record with which method `op` starts.
Enter(tk, op) ==
  [IdleTask EXCEPT !.op = op, !.ph = "run", !.nops = tk.nops + 1]

\* The task record with which the running method returns `result`.
Leave(tk, result) ==
  [tk EXCEPT !.ph = "idle", !.site = "none", !.got = NoRes, !.res = NoRes,
             !.result = result]

(***************************************************************************)
(* doReqEx up to the signing of the body (lines 284-315): the task record   *)
(* after the checks that precede the use of the nonce source.               *)
(***************************************************************************)
\* As doReqExEntry, but the key the caller passes is ignored.
doReqExEntryAccountKey(tk, site, method, u, key, v) ==
  LET url == RewriteNoTLS(u)
      k == AccountInfo.AccountKey
      signed == v # NoPayload
      base == [tk EXCEPT !.site = site,
                         !.req = [method |-> method, url |-> url, key |-> k, v |-> v],
                         !.nonce = 0, !.taken = 0, !.added = 0, !.replay = 0,
                         !.got = NoRes, !.res = NoRes, !.err = NoErr]
  IN IF ~ValidURL(url) THEN [base EXCEPT !.ph = "ret", !.err = "invalid URL"]
     ELSE IF signed /\ k = NoKey
       THEN [base EXCEPT !.ph = "ret", !.err = "account key must be specified"]
     ELSE IF signed /\ algorithmFromKey(k) = ""
       THEN [base EXCEPT !.ph = "ret", !.err = "unsupported key"]
     ELSE IF signed THEN [base EXCEPT !.ph = "sign"]
     ELSE [base EXCEPT !.ph = "wire"]

doReqExEntry(tk, site, method, u, key, v) ==
  LET url == RewriteNoTLS(u)
      k == IF key = NoKey THEN AccountInfo.AccountKey ELSE key
      signed == v # NoPayload
      base == [tk EXCEPT !.site = site,
                         !.req = [method |-> method, url |-> url, key |-> k, v |-> v],
                         !.nonce = 0, !.taken = 0, !.added = 0, !.replay = 0,
                         !.got = NoRes, !.res = NoRes, !.err = NoErr]
  IN IF ~ValidURL(url) THEN [base EXCEPT !.ph = "ret", !.err = "invalid URL"]
     ELSE IF signed /\ k = NoKey
       THEN [base EXCEPT !.ph = "ret", !.err = "account key must be specified"]
     ELSE IF signed /\ algorithmFromKey(k) = ""
       THEN [base EXCEPT !.ph = "ret", !.err = "unsupported key"]
     ELSE IF signed THEN [base EXCEPT !.ph = "sign"]
     ELSE [base EXCEPT !.ph = "wire"]

\* The step of task t that ends with its record tk2: the request goes to
\* the HTTP client when tk2 is on the wire.
Logged(log, w) == IF Len(log) < MaxLog THEN Append(log, w) ELSE log

Step(t, tk2, log) ==
  /\ task' = [task EXCEPT ![t] = tk2]
  /\ netlog' = [netlog EXCEPT ![t] =
                  IF tk2.ph = "wire" THEN Logged(log, Wire(tk2)) ELSE log]

(***************************************************************************)
(* The parse target r of each doReqEx call site, and the decoding of the    *)
(* body into it (lines 359-369).                                            *)
(***************************************************************************)
Parsed(site) ==
  site \in {"dir", "newreg", "reg", "reg2", "newauthz", "authz", "chal", "respond"}

IsHTTPError(resp) == resp.status >= 400 /\ resp.status < 600

\* json.NewDecoder(res.Body).Decode(r) is reached and stores into r.
Stores(site, resp) ==
  /\ Parsed(site)
  /\ ~IsHTTPError(resp)
  /\ resp.ct = JSON
  /\ resp.body.kind # "syntax"

\* Decode returns an error: the body is no JSON value, or a member has a
\* type its field cannot hold.
DecodeFails(body) == body.kind = "syntax" \/ body.typeError

\* What doReqEx returns for a response received (lines 354-371).
doReqExResult(site, resp) ==
  IF IsHTTPError(resp) THEN [res |-> resp, err |-> "HTTP error"]
  ELSE IF Parsed(site) /\ resp.ct # JSON
    THEN [res |-> resp, err |-> "unexpected content type"]
  ELSE IF Parsed(site) /\ DecodeFails(resp.body)
    THEN [res |-> NoRes, err |-> "decode"]
  ELSE [res |-> resp, err |-> NoErr]

(***************************************************************************)
(* directoryInfo and its decoding through &c.dir: a nil c.dir is allocated  *)
(* first, a non-nil one is written in place.                                *)
(***************************************************************************)
DirFields == {"NewReg", "NewAuthz", "NewCert", "RevokeCert"}
ZeroDir == [f \in DirFields |-> EmptyURL]

DirBody(newReg, newAuthz, newCert, revokeCert) ==
  [kind |-> "obj",
   typeError |-> WrongTypeURL \in {newReg, newAuthz, newCert, revokeCert},
   doc |-> [NewReg |-> newReg, NewAuthz |-> newAuthz, NewCert |-> newCert,
            RevokeCert |-> revokeCert]]

DecodeDir(old, body) ==
  LET into == IF old = NoDir THEN ZeroDir ELSE old
  IN [f \in DirFields |-> Member(into[f], body.doc[f])]

(***************************************************************************)
(* Challenge (lines 144-160) and its decoding.  A status string that        *)
(* Status.UnmarshalJSON rejects aborts the decoding at that member; the     *)
(* bodies modelled carry "uri" before "status".                             *)
(***************************************************************************)
Statuses == {"unknown", "pending", "processing", "valid", "invalid", "revoked"}

\* As StatusValid, but "unknown" is not a status.
StatusValidKnown(s) == s \in Statuses \ {"unknown"}

StatusValid(s) == s \in Statuses
StatusFinal(s) == s \in {"valid", "invalid", "revoked"}

\* JSON values as Status.UnmarshalJSON receives them: a string, null, or a
\* value of another type.
JSONString(str) == [kind |-> "string", s |-> str]
JSONNull == [kind |-> "null", s |-> ""]
JSONNumber == [kind |-> "number", s |-> ""]

\* Lines 128-141: the Status after UnmarshalJSON(data) on the Status s, and
\* the error returned.  json.Unmarshal of null leaves ss the empty string.
StatusUnmarshalJSON(s, data) ==
  LET ss == IF data.kind = "string" THEN data.s ELSE ""
  IN IF data.kind \notin {"string", "null"}
       THEN [s |-> s, err |-> "json: cannot unmarshal into Go value of type string"]
     ELSE IF ~StatusValid(ss) THEN [s |-> s, err |-> "not a valid status"]
     ELSE [s |-> ss, err |-> NoErr]

ZeroChallenge == [URI |-> EmptyURL, Status |-> "", retryAt |-> 0]

ChallengeBody(uri, status) ==
  [kind |-> "obj",
   typeError |-> uri = WrongTypeURL \/ (status # "absent" /\ ~StatusValid(status)),
   uri |-> uri, status |-> status]

DecodeChallenge(old, body) ==
  [old EXCEPT !.URI = Member(@, body.uri),
              !.Status = IF StatusValid(body.status) THEN body.status ELSE @]

(***************************************************************************)
(* RespondToChallenge passes the Client itself as the parse target (line    *)
(* 659): members named as the Client's exported fields are stored in them.  *)
(***************************************************************************)
ClientBody(directoryURL, registrationURI) ==
  [kind |-> "obj",
   typeError |-> WrongTypeURL \in {directoryURL, registrationURI},
   DirectoryURL |-> directoryURL, RegistrationURI |-> registrationURI]

(***************************************************************************)
(* Retry-After (lines 388-414).  strconv.ParseUint(v, 10, 31) accepts the   *)
(* decimal integers 0 .. 2^31-1.                                            *)
(***************************************************************************)
TenSeconds == 10
ParseUintMax == 2147483647

\* time.Duration is an int64 of nanoseconds: the largest Duration, in
\* thousands of seconds, is (2^63 - 1) \div 10^12.
MaxDurationKiloseconds == 9223372

\* Line 404: time.Duration(n) * time.Second, in seconds; the product wraps
\* around (here: to a negative duration) when it does not fit.
DurationSeconds(n) ==
  IF n \div 1000 < MaxDurationKiloseconds THEN n ELSE 0 - n

parseRetryAfter(h, now) ==
  IF h.kind = "absent" THEN [t |-> 0, ok |-> FALSE]
  ELSE IF h.kind = "int" /\ h.n >= 0 /\ h.n <= ParseUintMax
    THEN [t |-> now + DurationSeconds(h.n), ok |-> TRUE]
  ELSE IF h.kind = "date" THEN [t |-> h.n, ok |-> TRUE]
  ELSE [t |-> 0, ok |-> FALSE]

\* As retryAtDefault, but the default instant is now.
retryAtDefaultNow(h, d, now) ==
  LET p == parseRetryAfter(h, now) IN IF p.ok THEN p.t ELSE now

retryAtDefault(h, d, now) ==
  LET p == parseRetryAfter(h, now) IN IF p.ok THEN p.t ELSE now + d

(***************************************************************************)
(* Authorization (lines 164-175) and its decoding.  Combinations is a       *)
(* slice: nil, or non-nil with elements v.  An absent member leaves its     *)
(* field as it was; a JSON null makes the slice nil; a rejected status      *)
(* string aborts the decoding at that member, the members modelled coming   *)
(* in the order identifier, status, challenges, combinations.               *)
(***************************************************************************)
ZeroAuthorization ==
  [URI |-> EmptyURL, Identifier |-> [type |-> "", value |-> ""], Status |-> "",
   Challenges |-> <<>>, Combinations |-> NilCombinations, retryAt |-> 0]

Slice(v) == [nil |-> FALSE, v |-> v]
AbsentList == [has |-> FALSE, null |-> FALSE, v |-> <<>>]
NullList == [has |-> TRUE, null |-> TRUE, v |-> <<>>]
List(v) == [has |-> TRUE, null |-> FALSE, v |-> v]

AuthzBody(identifier, status, challenges, combinations) ==
  [kind |-> "obj",
   typeError |-> status # "absent" /\ ~StatusValid(status),
   identifier |-> identifier, status |-> status,
   challenges |-> challenges, combinations |-> combinations]

DecodeAuthorization(old, body) ==
  LET a1 == IF body.identifier = "absent" THEN old
            ELSE [old EXCEPT !.Identifier = [type |-> "dns", value |-> body.identifier]]
      a2 == IF StatusValid(body.status) THEN [a1 EXCEPT !.Status = body.status] ELSE a1
      a3 == IF body.challenges.has
            THEN [a2 EXCEPT !.Challenges = body.challenges.v] ELSE a2
      a4 == IF ~body.combinations.has THEN a3
            ELSE IF body.combinations.null
              THEN [a3 EXCEPT !.Combinations = NilCombinations]
            ELSE [a3 EXCEPT !.Combinations = Slice(body.combinations.v)]
  IN IF body.typeError THEN a2 ELSE a4

ZeroCertificate ==
  [URI |-> EmptyURL, Certificate |-> "", ExtraCertificates |-> <<>>, retryAt |-> 0]

(***************************************************************************)
(* regInfo as decoded into resInfo: only the agreement URI is read back.    *)
(***************************************************************************)
RegBody(agreement) ==
  [kind |-> "obj", typeError |-> agreement = WrongTypeURL, agreement |-> agreement]

(***************************************************************************)
(* Signing (lines 317-329): signer.Sign asks the nonce source for one       *)
(* nonce.  With an empty pool the source first replenishes it by a HEAD     *)
(* request, outside its lock, and then tries once more.                     *)
(***************************************************************************)
HeadWire ==
  [method |-> "HEAD", url |-> DirectoryURL, nonce |-> 0, key |-> NoKey, v |-> NoPayload]

\* As SignWith, but the nonce signed with stays in the pool.
SignWithKept(t, n) ==
  LET tk == [task[t] EXCEPT !.ph = "wire", !.nonce = n, !.taken = @ + 1]
  IN /\ pool' = pool
     /\ signedWith' = Append(signedWith, n)
     /\ Step(t, tk, netlog[t])

SignWith(t, n) ==
  LET tk == [task[t] EXCEPT !.ph = "wire", !.nonce = n, !.taken = @ + 1]
  IN /\ pool' = getNonce(pool, n)
     /\ signedWith' = Append(signedWith, n)
     /\ Step(t, tk, netlog[t])

Sign(t) ==
  /\ task[t].ph \in {"sign", "sign2"}
  /\ IF pool # {}
       THEN \E n \in pool : SignWith(t, n)
     ELSE IF task[t].ph = "sign"
       THEN /\ task' = [task EXCEPT ![t].ph = "head"]
            /\ netlog' = [netlog EXCEPT ![t] = Logged(@, HeadWire)]
            /\ UNCHANGED <<pool, signedWith>>
     ELSE /\ task' = [task EXCEPT ![t].ph = "ret", ![t].err = "no nonce"]
          /\ UNCHANGED <<pool, signedWith, netlog>>
  /\ UNCHANGED <<dir, AccountInfo, DirectoryURL, TestingNoTLS, az, ch, crt,
                 ctxDone, clock, server>>

\* The replenishing HEAD returns: its Replay-Nonce, if any, goes to the pool.
NonceHead(t, fresh) ==
  /\ task[t].ph = "head"
  /\ ~ctxDone[t]
  /\ pool' = IF fresh THEN AddNonce(pool, server.nonces + 1) ELSE pool
  /\ server' = [server EXCEPT !.nonces = IF fresh THEN @ + 1 ELSE @]
  /\ task' = [task EXCEPT ![t].ph = "sign2"]
  /\ UNCHANGED <<dir, AccountInfo, DirectoryURL, TestingNoTLS, az, ch, crt,
                 ctxDone, clock, signedWith, netlog>>

NonceHeadFail(t) ==
  /\ task[t].ph = "head"
  /\ task' = [task EXCEPT ![t].ph = "ret", ![t].err = "no nonce"]
  /\ UNCHANGED <<dir, AccountInfo, DirectoryURL, pool, TestingNoTLS, az, ch, crt,
                 ctxDone, clock, server, signedWith, netlog>>

(***************************************************************************)
(* The response (lines 344-371).  The server issues each nonce once.        *)
(***************************************************************************)
\* As FeedNonce, but after the status check: error responses feed nothing.
FeedNonceOnSuccess(p, resp) ==
  IF resp.nonce # 0 /\ ~IsHTTPError(resp) THEN AddNonce(p, resp.nonce) ELSE p

FeedNonce(p, resp) == IF resp.nonce # 0 THEN AddNonce(p, resp.nonce) ELSE p

Respond(t, resp) ==
  LET tk == task[t]
      site == tk.site
      got == [resp EXCEPT !.nonce = IF @ = 0 THEN 0 ELSE server.nonces + 1]
      out == doReqExResult(site, got)
      st == Stores(site, got)
  IN /\ tk.ph = "wire"
     /\ ~ctxDone[t]
     /\ pool' = FeedNonce(pool, got)
     /\ server' = [server EXCEPT !.nonces = IF got.nonce # 0 THEN got.nonce ELSE @]
     /\ dir' = IF st /\ site = "dir" THEN DecodeDir(dir, got.body) ELSE dir
     /\ ch' = IF st /\ site = "chal"
                THEN [ch EXCEPT ![t] = DecodeChallenge(@, got.body)] ELSE ch
     /\ az' = IF st /\ site \in {"newauthz", "authz"}
                THEN [az EXCEPT ![t] = DecodeAuthorization(@, got.body)] ELSE az
     /\ DirectoryURL' = IF st /\ site = "respond"
                          THEN Member(DirectoryURL, got.body.DirectoryURL)
                          ELSE DirectoryURL
     /\ AccountInfo' = IF st /\ site = "respond"
                         THEN [AccountInfo EXCEPT !.RegistrationURI =
                                 Member(@, got.body.RegistrationURI)]
                         ELSE AccountInfo
     /\ task' = [task EXCEPT ![t] =
                   [tk EXCEPT !.ph = "ret", !.got = got, !.res = out.res,
                              !.err = out.err,
                              !.replay = got.nonce,
                              !.added = Cardinality(pool') - Cardinality(pool),
                              !.agreement =
                                 IF st /\ site \in {"reg", "reg2"}
                                   THEN Member(@, got.body.agreement) ELSE @]]
     /\ UNCHANGED <<TestingNoTLS, crt, ctxDone, clock, signedWith, netlog>>

\* ctxhttp.Do returns an error: the transport failed, or the context is done.
TransportError(t) ==
  /\ task[t].ph = "wire"
  /\ task' = [task EXCEPT ![t].ph = "ret", ![t].res = NoRes,
                          ![t].err = IF ctxDone[t] THEN "context" ELSE "transport"]
  /\ UNCHANGED <<dir, AccountInfo, DirectoryURL, pool, TestingNoTLS, az, ch, crt,
                 ctxDone, clock, server, signedWith, netlog>>

(***************************************************************************)
(* The environment: the context is cancelled; time passes.  A goroutine     *)
(* blocked in a select is woken by the first of its channels to become      *)
(* ready, and that channel's case is the one it takes.                      *)
(***************************************************************************)
Cancel(t) ==
  /\ ~ctxDone[t]
  /\ ctxDone' = [ctxDone EXCEPT ![t] = TRUE]
  /\ task' = [task EXCEPT ![t] =
                IF @.ph = "blocked" THEN [@ EXCEPT !.ph = "woken", !.woke = "ctx"]
                ELSE @]
  /\ UNCHANGED <<dir, AccountInfo, DirectoryURL, pool, TestingNoTLS, az, ch, crt,
                 clock, server, signedWith, netlog>>

Tick ==
  /\ clock < MaxClock
  /\ clock' = clock + 1
  /\ task' = [t \in Tasks |->
                IF task[t].ph = "blocked" /\ task[t].timer <= clock + 1
                  THEN [task[t] EXCEPT !.ph = "woken", !.woke = "timer"]
                ELSE task[t]]
  /\ UNCHANGED <<dir, AccountInfo, DirectoryURL, pool, TestingNoTLS, az, ch, crt,
                 ctxDone, server, signedWith, netlog>>

(***************************************************************************)
(* LoadAuthorization, LoadChallenge and LoadCertificate up to their GET     *)
(* (lines 525-527, 585, 712), from the task record tk.                      *)
(***************************************************************************)
Sent(tk) == IF tk.ph = "wire" THEN [tk EXCEPT !.sentAt = clock] ELSE tk

BeginLoad(t, tk, log) ==
  CASE tk.op \in {"LoadAuthorization", "WaitLoadAuthorization"} ->
         /\ az' = [az EXCEPT ![t].Combinations = NilCombinations]
         /\ Step(t, Sent(doReqExEntry([tk EXCEPT !.carried = az[t].Combinations],
                                      "authz", "GET", az[t].URI, NoKey, NoPayload)),
                 log)
         /\ UNCHANGED <<ch, crt>>
    [] tk.op \in {"LoadChallenge", "WaitLoadChallenge"} ->
         /\ Step(t, Sent(doReqExEntry(tk, "chal", "GET", ch[t].URI, NoKey, NoPayload)), log)
         /\ UNCHANGED <<az, ch, crt>>
    [] tk.op \in {"LoadCertificate", "WaitLoadCertificate", "WaitForCertificate"} ->
         /\ Step(t, Sent(doReqExEntry(tk, "cert", "GET", crt[t].URI, NoKey, NoPayload)), log)
         /\ UNCHANGED <<az, ch, crt>>

\* The object's next-allowed-poll instant.
RetryAtOf(t, op) ==
  CASE op = "WaitLoadAuthorization" -> az[t].retryAt
    [] op = "WaitLoadChallenge" -> ch[t].retryAt
    [] OTHER -> crt[t].retryAt

(***************************************************************************)
(* waitUntil (lines 821-843).  The timer channel of time.After is ready     *)
(* from the instant t on; closedChannel (timer 0) is always ready.          *)
(***************************************************************************)
\* As TimerFor, but with the comparison of line 825 the other way round.
TimerForBefore(t0, now) == IF t0 > now THEN 0 ELSE t0

TimerFor(t0, now) == IF t0 > now THEN t0 ELSE 0

\* As waitUntilEntry, but without the check of the context that comes first.
waitUntilEntryUnchecked(tk, t0, done) ==
  [tk EXCEPT !.ph = "select", !.due = t0, !.timer = TimerFor(t0, clock),
             !.entered = clock]

\* Lines 822-834: the channel is chosen and the context checked first.
waitUntilEntry(tk, t0, done) ==
  IF done THEN Leave(tk, "context")
  ELSE [tk EXCEPT !.ph = "select", !.due = t0, !.timer = TimerFor(t0, clock),
                  !.entered = clock]

\* Lines 835-839: the select on ctx.Done() and the channel.
WaitSelect(t) ==
  LET tk == task[t]
      chReady == tk.timer <= clock
  IN /\ tk.ph = "select"
     /\ \/ /\ ctxDone[t]
           /\ task' = [task EXCEPT ![t] = Leave(tk, "context")]
           /\ UNCHANGED <<az, ch, crt, netlog>>
        \/ /\ chReady
           /\ BeginLoad(t, tk, netlog[t])
        \/ /\ ~ctxDone[t] /\ ~chReady
           /\ task' = [task EXCEPT ![t] = [tk EXCEPT !.ph = "blocked", !.blocked = TRUE]]
           /\ UNCHANGED <<az, ch, crt, netlog>>
     /\ UNCHANGED <<dir, AccountInfo, DirectoryURL, pool, TestingNoTLS, ctxDone,
                    clock, server, signedWith>>

\* The blocked select returns with the case that woke it.
WaitWake(t) ==
  LET tk == task[t]
  IN /\ tk.ph = "woken"
     /\ IF tk.woke = "ctx"
          THEN /\ task' = [task EXCEPT ![t] = Leave(tk, "context")]
               /\ UNCHANGED <<az, ch, crt, netlog>>
        ELSE BeginLoad(t, tk, netlog[t])
     /\ UNCHANGED <<dir, AccountInfo, DirectoryURL, pool, TestingNoTLS, ctxDone,
                    clock, server, signedWith>>

\* A method may start: the task is idle and the callers have calls left.
RECURSIVE Started(_)
Started(n) == IF n = 0 THEN 0 ELSE task[n].nops + Started(n - 1)

CanStart(t) == task[t].ph = "idle" /\ Started(NumTasks) < MaxOps

\* A task calls UnmarshalJSON(data) on the Status of its Challenge.
UnmarshalJSON(t, data) ==
  LET out == StatusUnmarshalJSON(ch[t].Status, data)
  IN /\ CanStart(t)
     /\ ch' = [ch EXCEPT ![t].Status = out.s]
     /\ task' = [task EXCEPT ![t] =
                   [Enter(@, "UnmarshalJSON") EXCEPT
                      !.ph = "idle", !.got = data,
                      !.result = IF out.err = NoErr THEN "ok" ELSE out.err]]
     /\ UNCHANGED <<dir, AccountInfo, DirectoryURL, pool, TestingNoTLS, az, crt,
                    ctxDone, clock, server, signedWith, netlog>>

(***************************************************************************)
(* Challenges: LoadChallenge, WaitLoadChallenge, RespondToChallenge         *)
(* (lines 584-608, 658-665).                                                *)
(***************************************************************************)
LoadChallenge(t) ==
  /\ CanStart(t)
  /\ BeginLoad(t, Enter(task[t], "LoadChallenge"), <<>>)
  /\ UNCHANGED <<dir, AccountInfo, DirectoryURL, pool, TestingNoTLS, ctxDone,
                 clock, server, signedWith>>

WaitLoadChallenge(t) ==
  /\ CanStart(t)
  /\ task' = [task EXCEPT ![t] =
                waitUntilEntry(Enter(@, "WaitLoadChallenge"), ch[t].retryAt, ctxDone[t])]
  /\ netlog' = [netlog EXCEPT ![t] = <<>>]
  /\ UNCHANGED <<dir, AccountInfo, DirectoryURL, pool, TestingNoTLS, az, ch, crt,
                 ctxDone, clock, server, signedWith>>

LoadChallengeReturn(t) ==
  LET tk == task[t]
  IN /\ tk.site = "chal" /\ tk.ph = "ret"
     /\ IF tk.err # NoErr
          THEN /\ task' = [task EXCEPT ![t] = Leave(tk, tk.err)]
               /\ ch' = ch
        ELSE /\ task' = [task EXCEPT ![t] = Leave(tk, "ok")]
             /\ ch' = [ch EXCEPT ![t].retryAt =
                         retryAtDefault(tk.res.retry, TenSeconds, clock)]
     /\ UNCHANGED <<dir, AccountInfo, DirectoryURL, pool, TestingNoTLS, az, crt,
                    ctxDone, clock, server, signedWith, netlog>>

RespondToChallenge(t, responseKey) ==
  /\ CanStart(t)
  /\ Step(t, doReqExEntry([Enter(task[t], "RespondToChallenge") EXCEPT
                             !.key = responseKey],
                          "respond", "POST", ch[t].URI, responseKey,
                          Payload("challenge")), <<>>)
  /\ UNCHANGED <<dir, AccountInfo, DirectoryURL, pool, TestingNoTLS, az, ch, crt,
                 ctxDone, clock, server, signedWith>>

RespondToChallengeReturn(t) ==
  LET tk == task[t]
  IN /\ tk.site = "respond" /\ tk.ph = "ret"
     /\ task' = [task EXCEPT ![t] = Leave(tk, IF tk.err # NoErr THEN tk.err ELSE "ok")]
     /\ UNCHANGED <<dir, AccountInfo, DirectoryURL, pool, TestingNoTLS, az, ch, crt,
                    ctxDone, clock, server, signedWith, netlog>>

(***************************************************************************)
(* The directory cache: getDirectory (lines 416-436) and what its callers   *)
(* do with the directory.  A caller uses the directory it was returned in   *)
(* the step that returns it.                                                *)
(***************************************************************************)
DirectoryValid(d) ==
  ValidURL(d.NewReg) /\ ValidURL(d.NewAuthz) /\ ValidURL(d.NewCert)

NewAuthorizationObject(hostname) ==
  [ZeroAuthorization EXCEPT !.Identifier = [type |-> "dns", value |-> hostname]]

\* The caller of getDirectory goes on with the directory di.
WithDirectory(t, tk, di, log) ==
  CASE tk.op = "UpsertRegistration" ->
         /\ Step(t, doReqExEntry(tk, "newreg", "POST", di.NewReg, NoKey,
                                 Payload("new-reg")), log)
         /\ UNCHANGED <<az, crt>>
    [] tk.op = "NewAuthorization" ->
         /\ az' = [az EXCEPT ![t] = NewAuthorizationObject(tk.arg)]
         /\ Step(t, doReqExEntry(tk, "newauthz", "POST", di.NewAuthz, NoKey,
                                 Payload("new-authz")), log)
         /\ UNCHANGED crt
    [] tk.op = "RequestCertificate" ->
         /\ crt' = [crt EXCEPT ![t] = ZeroCertificate]
         /\ Step(t, doReqExEntry(tk, "newcert", "POST", di.NewCert, NoKey,
                                 Payload("new-cert")), log)
         /\ UNCHANGED az
    [] tk.op = "Revoke" ->
         /\ Step(t, doReqExEntry(tk, "revoke", "POST", di.RevokeCert, tk.key,
                                 Payload("revoke-cert")), log)
         /\ UNCHANGED <<az, crt>>

\* Lines 417-425: the cached directory, or the GET of the directory URL.
getDirectory(t, tk, log) ==
  IF dir # NoDir
    THEN /\ WithDirectory(t, tk, dir, log)
         /\ UNCHANGED DirectoryURL
  ELSE LET url == IF DirectoryURL = EmptyURL THEN DefaultDirectoryURL
                  ELSE DirectoryURL
       IN /\ DirectoryURL' = url
          /\ Step(t, doReqExEntry(tk, "dir", "GET", url, NoKey, NoPayload), log)
          /\ UNCHANGED <<az, crt>>

\* Lines 426-435: the GET has returned.  c.dir is read again here: it is nil
\* when another task has cleared it meanwhile, and its use panics.
getDirectoryReturn(t) ==
  LET tk == task[t]
  IN /\ tk.site = "dir" /\ tk.ph = "ret"
     /\ IF tk.err # NoErr
          THEN /\ task' = [task EXCEPT ![t] = Leave(tk, tk.err)]
               /\ UNCHANGED <<dir, az, crt, netlog>>
        ELSE IF dir = NoDir
          THEN /\ task' = [task EXCEPT ![t] = Leave(tk, "panic")]
               /\ UNCHANGED <<dir, az, crt, netlog>>
        ELSE IF ~DirectoryValid(dir)
          THEN /\ dir' = NoDir
               /\ task' = [task EXCEPT ![t] =
                             Leave(tk, "directory does not provide required endpoints")]
               /\ UNCHANGED <<az, crt, netlog>>
        ELSE /\ WithDirectory(t, tk, dir, netlog[t])
             /\ dir' = dir
     /\ UNCHANGED <<AccountInfo, DirectoryURL, pool, TestingNoTLS, ch, ctxDone,
                    clock, server, signedWith>>

(***************************************************************************)
(* Registration: getRegistrationURI and UpsertRegistration (lines 441-518). *)
(***************************************************************************)
RegUpdate(agreement) == [resource |-> "reg", agreement |-> agreement]

\* As RegistrationKnown, but discovery is never skipped.
RegistrationNeverKnown(uri) == FALSE

\* Line 442: the Client holds a registration URI.
RegistrationKnown(uri) == uri # EmptyURL

UpsertRegistration(t) ==
  LET tk == Enter(task[t], "UpsertRegistration")
      uri == AccountInfo.RegistrationURI
  IN /\ CanStart(t)
     /\ IF RegistrationKnown(uri)
          THEN /\ Step(t, doReqExEntry([tk EXCEPT !.regURI = uri], "reg", "POST", uri,
                                       NoKey, RegUpdate(EmptyURL)), <<>>)
               /\ UNCHANGED <<DirectoryURL, az, crt>>
        ELSE getDirectory(t, tk, <<>>)
     /\ UNCHANGED <<dir, AccountInfo, pool, TestingNoTLS, ch, ctxDone, clock,
                    server, signedWith>>

\* As Registered, but 200 is accepted too.
RegisteredOrOK(status) == status \in {200, 201, 409}

\* Line 462: the statuses of a new-reg response that carry the registration.
Registered(status) == status \in {201, 409}

\* Lines 457-476: the new-reg POST has returned.
getRegistrationURIReturn(t) ==
  LET tk == task[t]
      loc == tk.res.loc
  IN /\ tk.site = "newreg" /\ tk.ph = "ret"
     /\ IF tk.res = NoRes
          THEN /\ task' = [task EXCEPT ![t] = Leave(tk, tk.err)]
               /\ UNCHANGED <<AccountInfo, netlog>>
        ELSE IF Registered(tk.res.status)
          THEN IF ~ValidURL(loc)
                 THEN /\ task' = [task EXCEPT ![t] = Leave(tk, "invalid URL")]
                      /\ UNCHANGED <<AccountInfo, netlog>>
               ELSE /\ AccountInfo' = [AccountInfo EXCEPT !.RegistrationURI = loc]
                    /\ Step(t, doReqExEntry([tk EXCEPT !.regURI = loc], "reg", "POST",
                                            loc, NoKey, RegUpdate(EmptyURL)),
                            netlog[t])
        ELSE /\ task' = [task EXCEPT ![t] =
                           Leave(tk, IF tk.err # NoErr THEN tk.err
                                     ELSE "unexpected status code")]
             /\ UNCHANGED <<AccountInfo, netlog>>
     /\ UNCHANGED <<dir, DirectoryURL, pool, TestingNoTLS, az, ch, crt, ctxDone,
                    clock, server, signedWith>>

\* As PreAccepted, but every agreement counts as accepted.
PreAcceptedAlways(uri) == TRUE

\* Line 505: the agreement is in the Client's AgreementURIs.
PreAccepted(uri) == uri \in AccountInfo.AgreementURIs

\* Lines 497-517: the reg POST has returned.
UpsertRegistrationReturn(t) ==
  LET tk == task[t]
      tosLink == tk.res.tos
  IN /\ tk.site = "reg" /\ tk.ph = "ret"
     /\ IF tk.err # NoErr
          THEN /\ task' = [task EXCEPT ![t] = Leave(tk, tk.err)]
               /\ netlog' = netlog
        ELSE IF tosLink # NoLink /\ tk.agreement # tosLink
          THEN IF ~PreAccepted(tosLink)
                 THEN /\ task' = [task EXCEPT ![t] =
                                    Leave([tk EXCEPT !.required = tosLink],
                                          "AgreementError")]
                      /\ netlog' = netlog
               ELSE Step(t, doReqExEntry(tk, "reg2", "POST", tk.regURI, NoKey,
                                         RegUpdate(tosLink)), netlog[t])
        ELSE /\ task' = [task EXCEPT ![t] = Leave(tk, "ok")]
             /\ netlog' = netlog
     /\ UNCHANGED <<dir, AccountInfo, DirectoryURL, pool, TestingNoTLS, az, ch, crt,
                    ctxDone, clock, server, signedWith>>

\* Lines 510-517: the POST carrying the agreement has returned.
AgreementReturn(t) ==
  LET tk == task[t]
  IN /\ tk.site = "reg2" /\ tk.ph = "ret"
     /\ task' = [task EXCEPT ![t] = Leave(tk, IF tk.err # NoErr THEN tk.err ELSE "ok")]
     /\ UNCHANGED <<dir, AccountInfo, DirectoryURL, pool, TestingNoTLS, az, ch, crt,
                    ctxDone, clock, server, signedWith, netlog>>

(***************************************************************************)
(* Revoke (lines 850-868).                                                  *)
(***************************************************************************)
Revoke(t, revocationKey) ==
  /\ CanStart(t)
  /\ getDirectory(t, [Enter(task[t], "Revoke") EXCEPT !.key = revocationKey], <<>>)
  /\ UNCHANGED <<dir, AccountInfo, pool, TestingNoTLS, ch, ctxDone, clock, server,
                 signedWith>>

RevokeReturn(t) ==
  LET tk == task[t]
  IN /\ tk.site = "revoke" /\ tk.ph = "ret"
     /\ task' = [task EXCEPT ![t] = Leave(tk, IF tk.err # NoErr THEN tk.err ELSE "ok")]
     /\ UNCHANGED <<dir, AccountInfo, DirectoryURL, pool, TestingNoTLS, az, ch, crt,
                    ctxDone, clock, server, signedWith, netlog>>

(***************************************************************************)
(* Authorizations: validate, NewAuthorization, LoadAuthorization and        *)
(* WaitLoadAuthorization (lines 524-578, 619-651).                          *)
(***************************************************************************)
RECURSIVE Indices(_)
Indices(n) == IF n = 0 THEN <<>> ELSE Append(Indices(n - 1), n - 1)

\* Lines 569-575: some index of some combination is out of range.
Malformed(combinations, n) ==
  \E c \in 1..Len(combinations) :
    \E i \in 1..Len(combinations[c]) : combinations[c][i] >= n

\* As validate, but without the default of lines 561-567.
validateNoDefault(a) ==
  LET n == Len(a.Challenges)
  IN IF n = 0 THEN [err |-> "no challenges offered", a |-> a]
     ELSE IF Malformed(a.Combinations.v, n)
       THEN [err |-> "one or more combinations are malformed", a |-> a]
     ELSE [err |-> NoErr, a |-> a]

\* Authorization.validate: its error and the object as it leaves it.
validate(a) ==
  LET n == Len(a.Challenges)
      synth == IF a.Combinations.nil
                 THEN [a EXCEPT !.Combinations = Slice(<<Indices(n)>>)]
               ELSE a
  IN IF n = 0 THEN [err |-> "no challenges offered", a |-> a]
     ELSE IF Malformed(synth.Combinations.v, n)
       THEN [err |-> "one or more combinations are malformed", a |-> synth]
     ELSE [err |-> NoErr, a |-> synth]

NewAuthorization(t, hostname) ==
  /\ CanStart(t)
  /\ getDirectory(t, [Enter(task[t], "NewAuthorization") EXCEPT !.arg = hostname], <<>>)
  /\ UNCHANGED <<dir, AccountInfo, pool, TestingNoTLS, ch, ctxDone, clock, server,
                 signedWith>>

\* Lines 634-650.  A failed call returns no object.
NewAuthorizationReturn(t) ==
  LET tk == task[t]
      loc == tk.res.loc
      v == validate([az[t] EXCEPT !.URI = loc])
      failed(e) == /\ task' = [task EXCEPT ![t] = Leave(tk, e)]
                   /\ az' = [az EXCEPT ![t] = ZeroAuthorization]
  IN /\ tk.site = "newauthz" /\ tk.ph = "ret"
     /\ IF tk.err # NoErr THEN failed(tk.err)
        ELSE IF tk.res.status # 201 \/ ~ValidURL(loc)
          THEN failed("expected status code 201 and valid Location header")
        ELSE IF v.err # NoErr THEN failed(v.err)
        ELSE /\ task' = [task EXCEPT ![t] = Leave(tk, "ok")]
             /\ az' = [az EXCEPT ![t] = v.a]
     /\ UNCHANGED <<dir, AccountInfo, DirectoryURL, pool, TestingNoTLS, ch, crt,
                    ctxDone, clock, server, signedWith, netlog>>

LoadAuthorization(t) ==
  /\ CanStart(t)
  /\ BeginLoad(t, Enter(task[t], "LoadAuthorization"), <<>>)
  /\ UNCHANGED <<dir, AccountInfo, DirectoryURL, pool, TestingNoTLS, ctxDone,
                 clock, server, signedWith>>

WaitLoadAuthorization(t) ==
  /\ CanStart(t)
  /\ task' = [task EXCEPT ![t] =
                waitUntilEntry(Enter(@, "WaitLoadAuthorization"), az[t].retryAt,
                               ctxDone[t])]
  /\ netlog' = [netlog EXCEPT ![t] = <<>>]
  /\ UNCHANGED <<dir, AccountInfo, DirectoryURL, pool, TestingNoTLS, az, ch, crt,
                 ctxDone, clock, server, signedWith>>

\* Lines 528-538.
LoadAuthorizationReturn(t) ==
  LET tk == task[t]
      v == validate(az[t])
  IN /\ tk.site = "authz" /\ tk.ph = "ret"
     /\ IF tk.err # NoErr
          THEN /\ task' = [task EXCEPT ![t] = Leave(tk, tk.err)]
               /\ az' = az
        ELSE IF v.err # NoErr
          THEN /\ task' = [task EXCEPT ![t] = Leave(tk, v.err)]
               /\ az' = [az EXCEPT ![t] = v.a]
        ELSE /\ task' = [task EXCEPT ![t] = Leave(tk, "ok")]
             /\ az' = [az EXCEPT ![t] =
                         [v.a EXCEPT !.retryAt =
                            retryAtDefault(tk.res.retry, TenSeconds, clock)]]
     /\ UNCHANGED <<dir, AccountInfo, DirectoryURL, pool, TestingNoTLS, ch, crt,
                    ctxDone, clock, server, signedWith, netlog>>

(***************************************************************************)
(* Certificates: RequestCertificate, LoadCertificate, loadCertificate, the  *)
(* chain walk loadExtraCertificates, WaitLoadCertificate and                *)
(* WaitForCertificate (lines 668-816).                                      *)
(*                                                                         *)
(* A relative `up` reference (scheme "") is written with the rest it has    *)
(* once resolved against the certificate's URI.  ExtraCertificates is kept  *)
(* up to MaxChain elements: longer walks go on without recording more.      *)
(***************************************************************************)
DerBody(der) == [kind |-> "der", der |-> der]

ResolveReference(base, ref) ==
  IF ref.scheme = "" THEN U(base.scheme, ref.rest) ELSE ref

\* As Appended, but the new certificate goes to the front of the list.
Prepended(list, der) == IF Len(list) < MaxChain THEN <<der>> \o list ELSE list

Appended(list, der) == IF Len(list) < MaxChain THEN Append(list, der) ELSE list

\* A certificate method returns, or WaitForCertificate goes round its loop
\* (lines 806-815), with the certificate c.
CertificateLoaded(t, tk, c) ==
  /\ crt' = [crt EXCEPT ![t] = c]
  /\ netlog' = netlog
  /\ IF tk.op = "WaitForCertificate" /\ c.Certificate = ""
       THEN task' = [task EXCEPT ![t] =
                       waitUntilEntry([tk EXCEPT !.site = "none", !.res = NoRes],
                                      c.retryAt, ctxDone[t])]
     ELSE task' = [task EXCEPT ![t] = Leave(tk, "ok")]

CertificateFailed(t, tk, c, e) ==
  /\ crt' = [crt EXCEPT ![t] = IF tk.op = "RequestCertificate" THEN ZeroCertificate
                               ELSE c]
  /\ netlog' = netlog
  /\ task' = [task EXCEPT ![t] = Leave(tk, e)]

\* One turn of the loop of loadExtraCertificates (lines 749-762) on the
\* response res, and the end of loadCertificate (lines 739-740) when the
\* walk returns nil.
WalkFrom(t, tk, c, res) ==
  LET up == res.up
  IN IF up = NoLink
       THEN CertificateLoaded(t, tk,
              [c EXCEPT !.retryAt = retryAtDefault(tk.retry0, TenSeconds, clock)])
     ELSE IF ~Parses(c.URI) \/ ~Parses(up)
       THEN CertificateFailed(t, tk, c, "invalid URI")
     ELSE /\ crt' = [crt EXCEPT ![t] = c]
          /\ Step(t, doReqExEntry(tk, "up", "GET", ResolveReference(c.URI, up),
                                  NoKey, NoPayload), netlog[t])

\* As loadCertificate, but without the failure of lines 735-737.
loadCertificateAnyType(t, tk, c, res) ==
  IF res.ct = PkixCert
    THEN WalkFrom(t, [tk EXCEPT !.retry0 = res.retry],
                  [c EXCEPT !.Certificate = res.body.der, !.ExtraCertificates = <<>>],
                  res)
  ELSE CertificateLoaded(t, tk,
         [c EXCEPT !.retryAt = retryAtDefault(res.retry, TenSeconds, clock)])

\* loadCertificate (lines 720-741) on the certificate c and the response res.
loadCertificate(t, tk, c, res) ==
  IF res.ct = PkixCert
    THEN WalkFrom(t, [tk EXCEPT !.retry0 = res.retry],
                  [c EXCEPT !.Certificate = res.body.der, !.ExtraCertificates = <<>>],
                  res)
  ELSE IF res.status = 200
    THEN CertificateFailed(t, tk, c, "Certificate returned with unexpected type")
  ELSE CertificateLoaded(t, tk,
         [c EXCEPT !.retryAt = retryAtDefault(res.retry, TenSeconds, clock)])

RequestCertificate(t, csrDER) ==
  /\ CanStart(t)
  /\ getDirectory(t, [Enter(task[t], "RequestCertificate") EXCEPT !.arg = csrDER], <<>>)
  /\ UNCHANGED <<dir, AccountInfo, pool, TestingNoTLS, ch, ctxDone, clock, server,
                 signedWith>>

\* Lines 680-701.
RequestCertificateReturn(t) ==
  LET tk == task[t]
      loc == tk.res.loc
  IN /\ tk.site = "newcert" /\ tk.ph = "ret"
     /\ IF tk.err # NoErr THEN CertificateFailed(t, tk, crt[t], tk.err)
        ELSE IF tk.res.status # 201
          THEN CertificateFailed(t, tk, crt[t], "unexpected status code")
        ELSE IF ~ValidURL(loc) THEN CertificateFailed(t, tk, crt[t], "invalid URI")
        ELSE loadCertificate(t, tk, [crt[t] EXCEPT !.URI = loc], tk.res)
     /\ UNCHANGED <<dir, AccountInfo, DirectoryURL, pool, TestingNoTLS, az, ch,
                    ctxDone, clock, server, signedWith>>

LoadCertificate(t) ==
  /\ CanStart(t)
  /\ BeginLoad(t, Enter(task[t], "LoadCertificate"), <<>>)
  /\ UNCHANGED <<dir, AccountInfo, DirectoryURL, pool, TestingNoTLS, ctxDone,
                 clock, server, signedWith>>

\* Lines 713-717.
LoadCertificateReturn(t) ==
  LET tk == task[t]
  IN /\ tk.site = "cert" /\ tk.ph = "ret"
     /\ IF tk.err # NoErr THEN CertificateFailed(t, tk, crt[t], tk.err)
        ELSE loadCertificate(t, tk, crt[t], tk.res)
     /\ UNCHANGED <<dir, AccountInfo, DirectoryURL, pool, TestingNoTLS, az, ch,
                    ctxDone, clock, server, signedWith>>

\* Lines 763-780: the GET of an `up` link has returned.
loadExtraCertificatesReturn(t) ==
  LET tk == task[t]
      c == crt[t]
  IN /\ tk.site = "up" /\ tk.ph = "ret"
     /\ IF tk.err # NoErr THEN CertificateFailed(t, tk, c, tk.err)
        ELSE IF tk.res.ct # PkixCert
          THEN CertificateFailed(t, tk, c, "unexpected certificate type")
        ELSE WalkFrom(t, tk,
               [c EXCEPT !.ExtraCertificates = Appended(@, tk.res.body.der)], tk.res)
     /\ UNCHANGED <<dir, AccountInfo, DirectoryURL, pool, TestingNoTLS, az, ch,
                    ctxDone, clock, server, signedWith>>

WaitLoadCertificate(t) ==
  /\ CanStart(t)
  /\ task' = [task EXCEPT ![t] =
                waitUntilEntry(Enter(@, "WaitLoadCertificate"), crt[t].retryAt,
                               ctxDone[t])]
  /\ netlog' = [netlog EXCEPT ![t] = <<>>]
  /\ UNCHANGED <<dir, AccountInfo, DirectoryURL, pool, TestingNoTLS, az, ch, crt,
                 ctxDone, clock, server, signedWith>>

WaitForCertificate(t) ==
  /\ CanStart(t)
  /\ task' = [task EXCEPT ![t] =
                IF crt[t].Certificate # ""
                  THEN Leave(Enter(@, "WaitForCertificate"), "ok")
                ELSE waitUntilEntry(Enter(@, "WaitForCertificate"), crt[t].retryAt,
                                    ctxDone[t])]
  /\ netlog' = [netlog EXCEPT ![t] = <<>>]
  /\ UNCHANGED <<dir, AccountInfo, DirectoryURL, pool, TestingNoTLS, az, ch, crt,
                 ctxDone, clock, server, signedWith>>

(***************************************************************************)
(* The state after construction: a Client with an account key and nothing   *)
(* cached, and objects constructed from their URIs.                         *)
(***************************************************************************)
DirURL == U("https", "ca/directory")
NewRegURL == U("https", "ca/new-reg")
NewAuthzURL == U("https", "ca/new-authz")
NewCertURL == U("https", "ca/new-cert")
RevokeCertURL == U("https", "ca/revoke-cert")
AcctURL == U("https", "ca/acct/1")
AuthzURL == U("https", "ca/authz/1")
ChalURL == U("https", "ca/chal/1")
CertURL == U("https", "ca/cert/1")
IssuerURL == U("https", "ca/issuer/1")
RootURL == U("https", "ca/issuer/2")
PlainHTTPURL == U("http", "ca/plain")
CertNodes == {CertURL, IssuerURL, RootURL}

InitClient ==
  /\ dir = NoDir
  /\ AccountInfo = [AccountKey |-> "rsa", AgreementURIs |-> {},
                    RegistrationURI |-> EmptyURL]
  /\ DirectoryURL = DirURL
  /\ pool = {}
  /\ TestingNoTLS = FALSE

InitObjects ==
  /\ task = [t \in Tasks |-> IdleTask]
  /\ az = [t \in Tasks |-> [ZeroAuthorization EXCEPT !.URI = AuthzURL]]
  /\ ch = [t \in Tasks |-> [ZeroChallenge EXCEPT !.URI = ChalURL]]
  /\ crt = [t \in Tasks |-> [ZeroCertificate EXCEPT !.URI = CertURL]]
  /\ ctxDone = [t \in Tasks |-> FALSE]
  /\ clock = 1
  /\ signedWith = <<>>
  /\ netlog = [t \in Tasks |-> <<>>]

\* The server has issued no nonce yet; its certificates carry no `up` link.
InitRest ==
  /\ InitObjects
  /\ server = [nonces |-> 0, up |-> [u \in CertNodes |-> NoLink]]

Init == InitClient /\ InitRest

(***************************************************************************)
(* The transactor under concurrent callers: tasks sharing the Client send   *)
(* signed POSTs (RespondToChallenge) and unsigned GETs (LoadChallenge).     *)
(***************************************************************************)
Plain(status, ct, nonce, body) ==
  R(status, ct, nonce, EmptyURL, NoLink, NoLink, RetryAbsent, body)

NonceResps(site) ==
  LET ok == IF site = "chal" THEN ChallengeBody(AbsentURL, "pending")
            ELSE ClientBody(AbsentURL, AbsentURL)
  IN {Plain(200, JSON, n, ok) : n \in {0, 1}}
       \cup {Plain(400, ProblemJSON, n, NoBody) : n \in {0, 1}}
       \cup {Plain(503, "text/html", 1, NoBody)}

NonceNext ==
  \E t \in Tasks :
    \/ LoadChallenge(t)
    \/ RespondToChallenge(t, NoKey)
    \/ Sign(t)
    \/ \E fresh \in BOOLEAN : NonceHead(t, fresh)
    \/ NonceHeadFail(t)
    \/ \E resp \in NonceResps(task[t].site) : Respond(t, resp)
    \/ TransportError(t)
    \/ LoadChallengeReturn(t)
    \/ RespondToChallengeReturn(t)

NonceSpec == Init /\ [][NonceNext]_vars

(***************************************************************************)
(* The directory cache under concurrent callers: tasks sharing the Client   *)
(* call the methods that need the directory.                                *)
(***************************************************************************)
AltNewAuthzURL == U("https", "ca/v2/new-authz")
GoodDirectory == DirBody(NewRegURL, NewAuthzURL, NewCertURL, RevokeCertURL)
MovedDirectory == DirBody(NewRegURL, AltNewAuthzURL, NewCertURL, RevokeCertURL)
NoNewCertDirectory == DirBody(NewRegURL, NewAuthzURL, AbsentURL, RevokeCertURL)
PlainNewRegDirectory == DirBody(PlainHTTPURL, NewAuthzURL, NewCertURL, AbsentURL)
MistypedDirectory == DirBody(WrongTypeURL, NewAuthzURL, NewCertURL, RevokeCertURL)

DirectoryDocs ==
  {GoodDirectory, MovedDirectory, NoNewCertDirectory, PlainNewRegDirectory,
   MistypedDirectory}

OneChallenge == AuthzBody("absent", "pending", List(<<"http-01">>), AbsentList)

DirResps(site) ==
  CASE site = "dir" ->
         {Plain(200, JSON, 1, d) : d \in DirectoryDocs}
           \cup {Plain(200, JSON, 1, SyntaxBody), Plain(503, "text/html", 1, NoBody)}
    [] site = "newreg" ->
         {R(201, JSON, 1, AcctURL, NoLink, NoLink, RetryAbsent, RegBody(AbsentURL))}
    [] site \in {"reg", "reg2"} ->
         {Plain(200, JSON, 1, RegBody(AbsentURL))}
    [] site = "newauthz" ->
         {R(201, JSON, 1, AuthzURL, NoLink, NoLink, RetryAbsent, OneChallenge)}
    [] site = "newcert" ->
         {R(201, "text/plain", 1, CertURL, NoLink, NoLink, RetryAbsent, NoBody)}
    [] site = "revoke" ->
         {Plain(200, "text/plain", 1, NoBody)}
    [] OTHER -> {}

DirStep(t) ==
  \/ UpsertRegistration(t)
  \/ NewAuthorization(t, "example.com")
  \/ RequestCertificate(t, "CSR")
  \/ Revoke(t, NoKey)
  \/ Sign(t)
  \/ NonceHead(t, TRUE)
  \/ \E resp \in DirResps(task[t].site) : Respond(t, resp)
  \/ TransportError(t)
  \/ getDirectoryReturn(t)
  \/ getRegistrationURIReturn(t)
  \/ UpsertRegistrationReturn(t)
  \/ NewAuthorizationReturn(t)
  \/ RequestCertificateReturn(t)
  \/ RevokeReturn(t)

DirNext == \E t \in Tasks : DirStep(t)

DirSpec == Init /\ [][DirNext]_vars

(***************************************************************************)
(* The directory cache under one caller: the same methods, called one       *)
(* after the other by a single task.                                        *)
(***************************************************************************)
Caller == CHOOSE t \in Tasks : \A u \in Tasks : t <= u

CacheNext == DirStep(Caller)

CacheSpec == Init /\ [][CacheNext]_vars

(***************************************************************************)
(* Registration under one caller: UpsertRegistration against every kind of  *)
(* new-reg and reg response, from Clients with and without a registration   *)
(* URI and with and without the agreement accepted beforehand.              *)
(***************************************************************************)
TosURL == U("https", "ca/tos/v2")
OldTosURL == U("https", "ca/tos/v1")

RegInit ==
  /\ dir = NoDir
  /\ AccountInfo \in [AccountKey : {"rsa"},
                      AgreementURIs : {{}, {TosURL}},
                      RegistrationURI : {EmptyURL, AcctURL}]
  /\ DirectoryURL = DirURL
  /\ pool = {}
  /\ TestingNoTLS = FALSE
  /\ InitRest

NewRegBodies ==
  {<<JSON, RegBody(AbsentURL)>>, <<JSON, SyntaxBody>>, <<"text/html", NoBody>>}

RegResps(site) ==
  CASE site = "dir" ->
         {Plain(200, JSON, 1, GoodDirectory), Plain(503, "text/html", 1, NoBody)}
    [] site = "newreg" ->
         {R(st, b[1], 1, loc, NoLink, NoLink, RetryAbsent, b[2]) :
            st \in {200, 201}, loc \in {AcctURL, PlainHTTPURL, EmptyURL},
            b \in NewRegBodies}
           \cup {R(st, ProblemJSON, 1, loc, NoLink, NoLink, RetryAbsent, NoBody) :
                   st \in {400, 409}, loc \in {AcctURL, PlainHTTPURL, EmptyURL}}
    [] site = "reg" ->
         {R(200, JSON, 1, EmptyURL, NoLink, tos, RetryAbsent, RegBody(a)) :
            tos \in {NoLink, TosURL}, a \in {AbsentURL, TosURL, OldTosURL}}
           \cup {Plain(200, JSON, 1, SyntaxBody), Plain(403, ProblemJSON, 1, NoBody)}
    [] site = "reg2" ->
         {Plain(200, JSON, 1, RegBody(TosURL)), Plain(400, ProblemJSON, 1, NoBody)}
    [] OTHER -> {}

RegNext ==
  \/ UpsertRegistration(Caller)
  \/ Sign(Caller)
  \/ NonceHead(Caller, TRUE)
  \/ NonceHeadFail(Caller)
  \/ \E resp \in RegResps(task[Caller].site) : Respond(Caller, resp)
  \/ TransportError(Caller)
  \/ getDirectoryReturn(Caller)
  \/ getRegistrationURIReturn(Caller)
  \/ UpsertRegistrationReturn(Caller)
  \/ AgreementReturn(Caller)

RegSpec == RegInit /\ [][RegNext]_vars

(***************************************************************************)
(* Authorizations under one caller: NewAuthorization and LoadAuthorization  *)
(* against authorization documents of every shape.                          *)
(***************************************************************************)
ChallengeLists ==
  {AbsentList, List(<<>>), List(<<"http-01">>), List(<<"http-01", "dns-01">>)}

CombinationLists ==
  {AbsentList, NullList, List(<<>>), List(<< <<>> >>), List(<< <<0>> >>),
   List(<< <<0>>, <<1>> >>), List(<< <<0, 2>> >>), List(<< <<-1>> >>)}

AuthzBodies ==
  {AuthzBody(id, st, chs, cs) :
     id \in {"absent", "other.example"},
     st \in {"absent", "pending", "valid", "bogus"},
     chs \in ChallengeLists, cs \in CombinationLists}

AuthzResps(site) ==
  CASE site = "dir" -> {Plain(200, JSON, 1, GoodDirectory)}
    [] site = "newauthz" ->
         {R(201, JSON, 1, AuthzURL, NoLink, NoLink, RetryAbsent, b) : b \in AuthzBodies}
           \cup {R(st, JSON, 1, loc, NoLink, NoLink, RetryAbsent, OneChallenge) :
                   st \in {200, 201}, loc \in {AuthzURL, EmptyURL}}
           \cup {Plain(403, ProblemJSON, 1, NoBody)}
    [] site = "authz" ->
         {Plain(200, JSON, 0, b) : b \in AuthzBodies}
           \cup {Plain(200, JSON, 0, SyntaxBody), Plain(200, "text/html", 0, NoBody),
                 Plain(404, ProblemJSON, 0, NoBody)}
    [] OTHER -> {}

AuthzNext ==
  \/ NewAuthorization(Caller, "example.com")
  \/ LoadAuthorization(Caller)
  \/ Sign(Caller)
  \/ NonceHead(Caller, TRUE)
  \/ \E resp \in AuthzResps(task[Caller].site) : Respond(Caller, resp)
  \/ TransportError(Caller)
  \/ getDirectoryReturn(Caller)
  \/ NewAuthorizationReturn(Caller)
  \/ LoadAuthorizationReturn(Caller)

AuthzSpec == Init /\ [][AuthzNext]_vars

(***************************************************************************)
(* Certificates under one caller: RequestCertificate and LoadCertificate    *)
(* against a server whose certificates link to one another by `up` in any   *)
(* way: not at all, in a chain, in a cycle, by a relative reference or by   *)
(* one that does not parse.                                                 *)
(***************************************************************************)
RelativeIssuerRef == U("", "ca/issuer/1")
UnparsableRef == U("%", "")
UpRefs == CertNodes \cup {NoLink, RelativeIssuerRef, UnparsableRef}

CertInit ==
  /\ InitClient
  /\ InitObjects
  /\ server \in [nonces : {0}, up : [CertNodes -> UpRefs]]

\* The certificate the server holds at url, as a response of status st.
Served(st, url) ==
  R(st, PkixCert, 0, url, server.up[url], NoLink, RetryAbsent, DerBody(url.rest))

CertResps(t) ==
  LET site == task[t].site
      url == task[t].req.url
  IN CASE site = "dir" -> {Plain(200, JSON, 1, GoodDirectory)}
       [] site = "newcert" ->
            {Served(201, CertURL), Served(200, CertURL),
             R(201, "", 1, CertURL, NoLink, NoLink, RetryAbsent, NoBody),
             R(201, "", 1, EmptyURL, NoLink, NoLink, RetryAbsent, NoBody),
             Plain(403, ProblemJSON, 1, NoBody)}
       [] site \in {"cert", "up"} ->
            (IF url \in CertNodes THEN {Served(200, url)} ELSE {})
              \cup {Plain(200, "text/html", 0, NoBody), Plain(202, "", 0, NoBody),
                    Plain(404, ProblemJSON, 0, NoBody)}
       [] OTHER -> {}

CertNext ==
  \/ RequestCertificate(Caller, "CSR")
  \/ LoadCertificate(Caller)
  \/ Sign(Caller)
  \/ NonceHead(Caller, TRUE)
  \/ \E resp \in CertResps(Caller) : Respond(Caller, resp)
  \/ TransportError(Caller)
  \/ getDirectoryReturn(Caller)
  \/ RequestCertificateReturn(Caller)
  \/ LoadCertificateReturn(Caller)
  \/ loadExtraCertificatesReturn(Caller)

CertSpec == CertInit /\ [][CertNext]_vars

\* The caller, the transport and the server keep taking their steps.
CertFairSpec == CertSpec /\ WF_vars(CertNext)

(***************************************************************************)
(* Polling under one caller: WaitLoadAuthorization, WaitLoadChallenge and   *)
(* WaitLoadCertificate while time passes and the context may be cancelled,  *)
(* against responses with every kind of Retry-After.                        *)
(***************************************************************************)
RetryAfters ==
  {RetryAbsent, RetryJunk, RetryInt(0), RetryInt(1), RetryInt(2), RetryDate(1),
   RetryDate(3)}

WaitResps(site) ==
  CASE site = "authz" ->
         {R(200, JSON, 0, EmptyURL, NoLink, NoLink, ra, OneChallenge) :
            ra \in RetryAfters}
    [] site = "chal" ->
         {R(202, JSON, 0, EmptyURL, NoLink, NoLink, ra,
            ChallengeBody(AbsentURL, "pending")) : ra \in RetryAfters}
    [] site = "cert" ->
         {R(202, "", 0, EmptyURL, NoLink, NoLink, ra, NoBody) : ra \in RetryAfters}
           \cup {Plain(404, ProblemJSON, 0, NoBody)}
    [] OTHER -> {}

WaitNext ==
  \/ WaitLoadAuthorization(Caller)
  \/ WaitLoadChallenge(Caller)
  \/ WaitLoadCertificate(Caller)
  \/ WaitSelect(Caller)
  \/ WaitWake(Caller)
  \/ Cancel(Caller)
  \/ Tick
  \/ \E resp \in WaitResps(task[Caller].site) : Respond(Caller, resp)
  \/ TransportError(Caller)
  \/ LoadAuthorizationReturn(Caller)
  \/ LoadChallengeReturn(Caller)
  \/ LoadCertificateReturn(Caller)

WaitSpec == Init /\ [][WaitNext]_vars

(***************************************************************************)
(* Waiting for issuance under one caller: WaitForCertificate polls a        *)
(* server that answers "not yet" with a Retry-After, serves the             *)
(* certificate, or fails, while time passes and the context may be          *)
(* cancelled.  The issuer's `up` link is absent or points to the issuer.    *)
(***************************************************************************)
PollInit ==
  /\ InitClient
  /\ InitObjects
  /\ server \in [nonces : {0}, up : [CertNodes -> {NoLink, IssuerURL}]]

PollResps(t) ==
  LET url == task[t].req.url
  IN CASE task[t].site \in {"cert", "up"} ->
            (IF url \in CertNodes THEN {Served(200, url)} ELSE {})
              \cup {R(202, "", 0, EmptyURL, NoLink, NoLink, ra, NoBody) :
                      ra \in {RetryAbsent, RetryInt(0), RetryInt(1)}}
              \cup {Plain(404, ProblemJSON, 0, NoBody)}
       [] OTHER -> {}

PollNext ==
  \/ WaitForCertificate(Caller)
  \/ WaitSelect(Caller)
  \/ WaitWake(Caller)
  \/ Cancel(Caller)
  \/ Tick
  \/ \E resp \in PollResps(Caller) : Respond(Caller, resp)
  \/ TransportError(Caller)
  \/ LoadCertificateReturn(Caller)
  \/ loadExtraCertificatesReturn(Caller)

PollSpec == PollInit /\ [][PollNext]_vars

\* The caller, the transport, the server and the clock keep taking steps.
PollFairSpec == PollSpec /\ WF_vars(PollNext)

(***************************************************************************)
(* The checks at the head of doReqEx under one caller: every method, with   *)
(* and without TestingNoTLS, with and without an account key and a key of   *)
(* the caller's, on objects whose URIs are https, http, relative or         *)
(* unparsable, against a server whose Location and Link headers and whose   *)
(* directory carry URLs of these kinds.                                     *)
(***************************************************************************)
WithScheme(u, s) == U(s, u.rest)
ObjectSchemes == {"https", "http", "", "%"}
CallerKeys == {NoKey, "ec-p256"}
PlainRevokeDirectory == DirBody(NewRegURL, NewAuthzURL, NewCertURL, PlainHTTPURL)

EntryInit ==
  /\ dir = NoDir
  /\ AccountInfo \in [AccountKey : {"rsa", NoKey}, AgreementURIs : {{}},
                      RegistrationURI : {EmptyURL}]
  /\ DirectoryURL = DirURL
  /\ pool = {}
  /\ TestingNoTLS \in BOOLEAN
  /\ task = [t \in Tasks |-> IdleTask]
  /\ \E s \in ObjectSchemes :
       /\ az = [t \in Tasks |-> [ZeroAuthorization EXCEPT !.URI = WithScheme(AuthzURL, s)]]
       /\ ch = [t \in Tasks |-> [ZeroChallenge EXCEPT !.URI = WithScheme(ChalURL, s)]]
       /\ crt = [t \in Tasks |-> [ZeroCertificate EXCEPT !.URI = WithScheme(CertURL, s)]]
  /\ ctxDone = [t \in Tasks |-> FALSE]
  /\ clock = 1
  /\ signedWith = <<>>
  /\ netlog = [t \in Tasks |-> <<>>]
  /\ server = [nonces |-> 0, up |-> [u \in CertNodes |-> NoLink]]

EntryResps(site) ==
  CASE site = "dir" ->
         {Plain(200, JSON, 1, d) :
            d \in {GoodDirectory, PlainNewRegDirectory, PlainRevokeDirectory}}
    [] site = "newreg" ->
         {R(201, JSON, 1, loc, NoLink, NoLink, RetryAbsent, RegBody(AbsentURL)) :
            loc \in {AcctURL, PlainHTTPURL}}
    [] site = "reg" -> {Plain(200, JSON, 1, RegBody(AbsentURL))}
    [] site = "newauthz" ->
         {R(201, JSON, 1, loc, NoLink, NoLink, RetryAbsent, OneChallenge) :
            loc \in {AuthzURL, PlainHTTPURL}}
    [] site = "authz" -> {Plain(200, JSON, 0, OneChallenge)}
    [] site = "chal" -> {Plain(200, JSON, 0, ChallengeBody(AbsentURL, "pending"))}
    [] site = "respond" -> {Plain(200, JSON, 1, ClientBody(AbsentURL, AbsentURL))}
    [] site = "newcert" ->
         {R(201, "", 1, loc, NoLink, NoLink, RetryAbsent, NoBody) :
            loc \in {CertURL, PlainHTTPURL}}
    [] site \in {"cert", "up"} ->
         {R(200, PkixCert, 0, EmptyURL, up, NoLink, RetryAbsent, DerBody("der")) :
            up \in {NoLink, IssuerURL, PlainHTTPURL, RelativeIssuerRef, UnparsableRef}}
    [] site = "revoke" -> {Plain(200, "text/plain", 1, NoBody)}
    [] OTHER -> {}

EntryNext ==
  \/ UpsertRegistration(Caller)
  \/ NewAuthorization(Caller, "example.com")
  \/ LoadAuthorization(Caller)
  \/ LoadChallenge(Caller)
  \/ \E k \in CallerKeys : RespondToChallenge(Caller, k)
  \/ RequestCertificate(Caller, "CSR")
  \/ LoadCertificate(Caller)
  \/ \E k \in CallerKeys : Revoke(Caller, k)
  \/ Sign(Caller)
  \/ NonceHead(Caller, TRUE)
  \/ \E resp \in EntryResps(task[Caller].site) : Respond(Caller, resp)
  \/ getDirectoryReturn(Caller)
  \/ getRegistrationURIReturn(Caller)
  \/ UpsertRegistrationReturn(Caller)
  \/ NewAuthorizationReturn(Caller)
  \/ LoadAuthorizationReturn(Caller)
  \/ LoadChallengeReturn(Caller)
  \/ RespondToChallengeReturn(Caller)
  \/ RequestCertificateReturn(Caller)
  \/ LoadCertificateReturn(Caller)
  \/ loadExtraCertificatesReturn(Caller)
  \/ RevokeReturn(Caller)

EntrySpec == EntryInit /\ [][EntryNext]_vars

(***************************************************************************)
(* Status parsing: UnmarshalJSON on Status values of every kind, valid or   *)
(* not, with JSON strings in and out of the six statuses, null and a        *)
(* number.                                                                  *)
(***************************************************************************)
StatusStrings ==
  Statuses \cup {"", "Valid", "VALID", "valid ", "ready", "deactivated", "expired"}

StatusData == {JSONString(str) : str \in StatusStrings} \cup {JSONNull, JSONNumber}

StatusInit ==
  /\ InitClient
  /\ task = [t \in Tasks |-> IdleTask]
  /\ az = [t \in Tasks |-> [ZeroAuthorization EXCEPT !.URI = AuthzURL]]
  /\ \E str \in StatusStrings :
       ch = [t \in Tasks |-> [ZeroChallenge EXCEPT !.URI = ChalURL, !.Status = str]]
  /\ crt = [t \in Tasks |-> [ZeroCertificate EXCEPT !.URI = CertURL]]
  /\ ctxDone = [t \in Tasks |-> FALSE]
  /\ clock = 1
  /\ signedWith = <<>>
  /\ netlog = [t \in Tasks |-> <<>>]
  /\ server = [nonces |-> 0, up |-> [u \in CertNodes |-> NoLink]]

StatusNext == \E t \in Tasks, data \in StatusData : UnmarshalJSON(t, data)

StatusSpec == StatusInit /\ [][StatusNext]_vars

(***************************************************************************)
(* The next-allowed-poll instant under one caller: LoadAuthorization,       *)
(* LoadChallenge and LoadCertificate while time passes, against responses   *)
(* with a Retry-After of every form: absent, not a number, a negative       *)
(* integer, integers up to the largest the clock of the model can be added  *)
(* to, an integer of 2^31 or more, and dates.                               *)
(***************************************************************************)
LargestDelay == ParseUintMax - MaxClock

RetryForms ==
  {RetryAbsent, RetryJunk, RetryTooBig, RetryInt(-1), RetryInt(0), RetryInt(1),
   RetryInt(LargestDelay), RetryDate(0), RetryDate(2)}

RetryResps(site) ==
  CASE site = "authz" ->
         {R(200, JSON, 0, EmptyURL, NoLink, NoLink, ra, OneChallenge) :
            ra \in RetryForms}
    [] site = "chal" ->
         {R(st, JSON, 0, EmptyURL, NoLink, NoLink, ra,
            ChallengeBody(AbsentURL, "pending")) : st \in {200, 202}, ra \in RetryForms}
    [] site = "cert" ->
         {R(200, PkixCert, 0, EmptyURL, NoLink, NoLink, ra, DerBody("der")) :
            ra \in RetryForms}
           \cup {R(202, "", 0, EmptyURL, NoLink, NoLink, ra, NoBody) : ra \in RetryForms}
    [] OTHER -> {}

RetryNext ==
  \/ LoadAuthorization(Caller)
  \/ LoadChallenge(Caller)
  \/ LoadCertificate(Caller)
  \/ Tick
  \/ \E resp \in RetryResps(task[Caller].site) : Respond(Caller, resp)
  \/ LoadAuthorizationReturn(Caller)
  \/ LoadChallengeReturn(Caller)
  \/ LoadCertificateReturn(Caller)

RetrySpec == Init /\ [][RetryNext]_vars

(***************************************************************************)
(* Challenge responses under one caller: RespondToChallenge against JSON    *)
(* bodies with and without members named as fields of the Client.           *)
(***************************************************************************)
ElsewhereURL == U("https", "elsewhere.example/directory")
OtherAcctURL == U("https", "ca/acct/2")

RespondResps(site) ==
  CASE site = "respond" ->
         {Plain(st, JSON, n, ClientBody(d, r)) :
            st \in {200, 202}, n \in {0, 1},
            d \in {AbsentURL, ElsewhereURL, WrongTypeURL},
            r \in {AbsentURL, OtherAcctURL}}
           \cup {Plain(200, "text/html", 1, NoBody), Plain(400, ProblemJSON, 1, NoBody)}
    [] OTHER -> {}

RespondNext ==
  \/ \E k \in CallerKeys : RespondToChallenge(Caller, k)
  \/ Sign(Caller)
  \/ NonceHead(Caller, TRUE)
  \/ \E resp \in RespondResps(task[Caller].site) : Respond(Caller, resp)
  \/ RespondToChallengeReturn(Caller)

RespondSpec == Init /\ [][RespondNext]_vars

(***************************************************************************)
(* Properties of the transactor and the nonce pool (NonceSpec).             *)
(***************************************************************************)
Range(seq) == {seq[i] : i \in 1..Len(seq)}
Signed(tk) == tk.req.v # NoPayload
EntryErrors ==
  {"invalid URL", "account key must be specified", "unsupported key", "no nonce"}

\* C1: under any interleaving of the tasks sharing the Client, a signed
\* request that goes out has taken exactly one nonce out of the pool, and
\* no nonce signs two requests.
C1_NonceSignsOnce ==
  /\ \A i, j \in 1..Len(signedWith) : i # j => signedWith[i] # signedWith[j]
  /\ \A t \in Tasks :
       (task[t].ph = "wire" /\ Signed(task[t])) =>
         /\ task[t].taken = 1
         /\ task[t].nonce \in Range(signedWith)
         /\ task[t].nonce \notin pool

\* Two tasks have signed requests in flight at once, each signed with a
\* nonce of its own.
C1_Witness ==
  \E t1, t2 \in Tasks :
    /\ t1 # t2
    /\ task[t1].ph = "wire" /\ Signed(task[t1])
    /\ task[t2].ph = "wire" /\ Signed(task[t2])
    /\ task[t1].nonce # task[t2].nonce

\* C2: when doReqEx has got a response, the pool has grown by exactly the
\* response's Replay-Nonce (by nothing when it has none), whatever the status
\* and whether or not the request was signed; a signed request that was sent
\* removed exactly one nonce, which is no longer in the pool.
C2_ReplayNonceFed ==
  /\ \A t \in Tasks :
       task[t].ph = "ret" =>
         /\ task[t].added = IF task[t].replay # 0 THEN 1 ELSE 0
         /\ task[t].replay # 0 => task[t].replay \in pool \cup Range(signedWith)
         /\ (Signed(task[t]) /\ task[t].err \notin EntryErrors) =>
              task[t].taken = 1 /\ task[t].nonce \notin pool
  /\ Range(signedWith) \cap pool = {}

\* The Replay-Nonce of an error response to an unsigned GET is in the pool.
C2_Witness ==
  \E t \in Tasks :
    /\ task[t].ph = "ret" /\ ~Signed(task[t])
    /\ task[t].res # NoRes /\ IsHTTPError(task[t].res)
    /\ task[t].replay # 0 /\ task[t].replay \in pool

(***************************************************************************)
(* Properties of the directory cache (DirSpec, CacheSpec).                  *)
(***************************************************************************)
PostDirectorySites == {"newreg", "newauthz", "newcert", "revoke"}
DirectoryGET(url) == [method |-> "GET", url |-> url, nonce |-> 0, key |-> NoKey,
                      v |-> NoPayload]

\* Some task is past a successful getDirectory and is using its directory.
getDirectorySucceeded == \E t \in Tasks : task[t].site \in PostDirectorySites

\* C7: once getDirectory has succeeded, the cached directory never changes and
\* no operation begun afterwards sends a GET of the directory URL.
C7_CacheNeverChanges ==
  [][getDirectorySucceeded =>
       /\ dir' = dir
       /\ \A t \in Tasks :
            (task[t].ph = "idle" /\ task'[t].ph # "idle") => task'[t].site # "dir"]_vars

\* The errors getDirectory returns for a document fetched that lacks the
\* endpoints: a member of the wrong type fails the decoding, a missing or
\* invalid URL fails the validation.
LacksEndpoints == {"decode", "directory does not provide required endpoints"}

\* C8: when the operation has failed in getDirectory on a fetched document
\* lacking a valid required URL, it has contacted nothing but the directory URL
\* and the cache is left cleared.
C8_FailedFetchClearsCache ==
  \A t \in Tasks :
    (task[t].ph = "idle" /\ task[t].result \in LacksEndpoints
       /\ Len(netlog[t]) > 0 /\ netlog[t][1].method = "GET") =>
      /\ netlog[t] = <<DirectoryGET(DirectoryURL)>>
      /\ dir = NoDir

(***************************************************************************)
(* Properties of the registration upsert (RegSpec).                         *)
(***************************************************************************)
\* The new-reg POST of task t has returned to getRegistrationURI.
NewRegReturned(t) == task[t].site = "newreg" /\ task[t].ph = "ret"

\* In the step taken, the registration URI becomes loc and the reg update
\* goes against it.
ProceedsAgainst(t, loc) ==
  /\ AccountInfo'.RegistrationURI = loc
  /\ task'[t].site = "reg" /\ task'[t].ph = "sign"
  /\ task'[t].req = [method |-> "POST", url |-> loc, key |-> AccountInfo.AccountKey,
                     v |-> RegUpdate(EmptyURL)]

\* In the step taken, the operation fails and the registration URI is empty.
FailsUnregistered(t) ==
  /\ task'[t].ph = "idle" /\ task'[t].result \notin {"ok", "none"}
  /\ AccountInfo'.RegistrationURI = EmptyURL

\* The discovery POST goes to the directory's new-reg endpoint.
DiscoveryPOST ==
  \A t \in Tasks :
    task[t].site = "newreg" =>
      /\ AccountInfo.RegistrationURI = EmptyURL
      /\ task[t].req.method = "POST" /\ task[t].req.url = dir.NewReg
      /\ task[t].req.v.resource = "new-reg"

\* The response is a 201 served as application/json whose body does not decode.
Undecodable(resp) ==
  resp.status = 201 /\ resp.ct = JSON /\ DecodeFails(resp.body)

\* C9 as stated: with no registration URI known the new-reg POST goes to the
\* directory's new-reg endpoint; on 201 or 409 with a valid Location the
\* registration URI becomes the Location and the reg update goes against it;
\* on any other status or an invalid Location the operation fails and the
\* registration URI stays empty.
C9_AsStated ==
  [][\A t \in Tasks :
       (NewRegReturned(t) /\ task'[t] # task[t]) =>
         /\ DiscoveryPOST
         /\ IF task[t].got # NoRes /\ task[t].got.status \in {201, 409}
                 /\ ValidURL(task[t].got.loc)
              THEN ProceedsAgainst(t, task[t].got.loc)
            ELSE FailsUnregistered(t)]_vars

\* C9 amended: as stated, except that a 201 served as application/json whose
\* body does not decode fails the operation like an unexpected status does.
C9_Discovery ==
  [][\A t \in Tasks :
       (NewRegReturned(t) /\ task'[t] # task[t]) =>
         /\ DiscoveryPOST
         /\ IF task[t].got # NoRes /\ task[t].got.status \in {201, 409}
                 /\ ValidURL(task[t].got.loc) /\ ~Undecodable(task[t].got)
              THEN ProceedsAgainst(t, task[t].got.loc)
            ELSE FailsUnregistered(t)]_vars

\* Discovery has set the registration URI from the Location of the new-reg
\* response and the reg update against it is on the wire.
C9_Witness ==
  \E t \in Tasks :
    /\ task[t].site = "reg" /\ task[t].ph = "wire"
    /\ Len(netlog[t]) >= 2
    /\ AccountInfo.RegistrationURI = AcctURL
    /\ \E i \in 1..Len(netlog[t]) : netlog[t][i].v.resource = "new-reg"

\* Task t begins the method op in the step taken.
Begins(t, op) == task[t].ph = "idle" /\ task'[t].ph # "idle" /\ task'[t].op = op

\* Every request task t hands to the HTTP client in the step taken is a reg
\* update POSTed to uri, or the HEAD with which the nonce source replenishes.
SendsOnlyRegUpdate(t, uri) ==
  \A i \in 1..Len(netlog'[t]) :
    (i > Len(netlog[t]) \/ task[t].ph = "idle") =>
      \/ netlog'[t][i] = HeadWire
      \/ /\ netlog'[t][i].method = "POST"
         /\ netlog'[t][i].v.resource = "reg"
         /\ netlog'[t][i].url = uri

\* C10: an UpsertRegistration begun with a registration URI known goes
\* straight to the reg update against that URI, and from there on sends
\* nothing but reg updates to it: no new-reg POST, no GET of the directory;
\* the registration URI stays as it is.
C10_SkipsDiscovery ==
  [][\A t \in Tasks :
       /\ (Begins(t, "UpsertRegistration") /\ AccountInfo.RegistrationURI # EmptyURL) =>
            /\ task'[t].site = "reg"
            /\ task'[t].req.method = "POST"
            /\ task'[t].req.url = AccountInfo.RegistrationURI
            /\ task'[t].req.v = RegUpdate(EmptyURL)
            /\ SendsOnlyRegUpdate(t, AccountInfo.RegistrationURI)
            /\ AccountInfo' = AccountInfo
       /\ task[t].site \in {"reg", "reg2"} =>
            /\ task'[t].site \in {"reg", "reg2", "none"}
            /\ task'[t].regURI = task[t].regURI
            /\ SendsOnlyRegUpdate(t, task[t].regURI)
            /\ AccountInfo' = AccountInfo]_vars

\* An UpsertRegistration begun with the registration URI known has its reg
\* update on the wire, the first request it sends.
C10_Witness ==
  \E t \in Tasks :
    /\ task[t].op = "UpsertRegistration" /\ task[t].site = "reg"
    /\ task[t].ph = "wire"
    /\ Len(netlog[t]) = 1 /\ netlog[t][1].url = AcctURL
    /\ netlog[t][1].v.resource = "reg"
    /\ dir = NoDir

(***************************************************************************)
(* Properties of authorizations (AuthzSpec).                                *)
(***************************************************************************)
\* Task t has just got its authorization from a successful NewAuthorization
\* or LoadAuthorization.
AuthorizationDelivered(t) ==
  /\ task[t].ph = "idle" /\ task[t].result = "ok"
  /\ task[t].op \in {"NewAuthorization", "LoadAuthorization"}

\* Challenges and Combinations are non-empty and every index is in range.
WellFormed(a) ==
  /\ Len(a.Challenges) > 0
  /\ ~a.Combinations.nil
  /\ Len(a.Combinations.v) > 0
  /\ \A c \in 1..Len(a.Combinations.v) :
       \A i \in 1..Len(a.Combinations.v[c]) :
         /\ 0 <= a.Combinations.v[c][i]
         /\ a.Combinations.v[c][i] < Len(a.Challenges)

\* C3: every Authorization that NewAuthorization returns or a successful
\* LoadAuthorization leaves has a non-empty Challenges list and a non-empty
\* Combinations list whose indices i all satisfy 0 <= i < len(Challenges).
C3_AuthorizationWellFormed ==
  \A t \in Tasks : AuthorizationDelivered(t) => WellFormed(az[t])

(***************************************************************************)
(* Properties of the certificate chain walk (CertFairSpec).                 *)
(***************************************************************************)
\* C4: the chain walk always terminates: a task walking `up` links
\* eventually returns from its method, whatever links the server presents.
C4_WalkTerminates ==
  \A t \in Tasks : (task[t].site = "up") ~> (task[t].ph = "idle")

(***************************************************************************)
(* Properties of polling (WaitSpec).                                        *)
(***************************************************************************)
WaitOps == {"WaitLoadAuthorization", "WaitLoadChallenge", "WaitLoadCertificate"}

\* Task t, blocked in the select of waitUntil with its timer pending, has
\* been woken by the cancellation of its context.
CancelledWaiting(t) ==
  task[t].op \in WaitOps /\ task[t].ph = "woken" /\ task[t].woke = "ctx"

\* In the step taken, task t returns the context's error from its method
\* and hands no request to the HTTP client.
ReturnsContextError(t) ==
  /\ task'[t].ph = "idle" /\ task'[t].result = "context"
  /\ netlog'[t] = <<>>

\* C5: a WaitLoad method entered with the context already cancelled, be its
\* poll instant expired or not, and one whose context is cancelled while it
\* waits for the poll instant, returns the context's error and sends nothing.
C5_CancelledWaitSendsNothing ==
  [][\A t \in Tasks :
       /\ (\E op \in WaitOps : Begins(t, op) /\ ctxDone[t]) => ReturnsContextError(t)
       /\ (task[t].op \in WaitOps /\ task[t].ph = "blocked" /\ ctxDone'[t]) =>
            CancelledWaiting(t)'
       /\ (CancelledWaiting(t) /\ task'[t] # task[t]) => ReturnsContextError(t)]_vars

\* A WaitLoad method entered with the context cancelled and the poll instant
\* expired has returned the context's error, having sent nothing.
C5_Witness ==
  \E t \in Tasks :
    /\ task[t].op \in WaitOps /\ task[t].ph = "idle" /\ task[t].result = "context"
    /\ task[t].entered = 0 /\ task[t].nops = 2
    /\ RetryAtOf(t, task[t].op) # 0 /\ RetryAtOf(t, task[t].op) <= clock
    /\ netlog[t] = <<>>

\* C6: a WaitLoad method sends its GET no earlier than the poll instant the
\* object held when the method was entered, and a method entered at or after
\* that instant, or with none set, never waits.
C6_PollNoEarlier ==
  \A t \in Tasks :
    task[t].op \in WaitOps =>
      /\ task[t].site # "none" => task[t].sentAt >= task[t].due
      /\ (task[t].ph \in {"select", "blocked", "woken"} \/ task[t].site # "none") =>
           (task[t].due <= task[t].entered => ~task[t].blocked)
      /\ (task[t].ph = "blocked" /\ ~ctxDone[t]) => clock < task[t].due

\* A WaitLoad method that had to wait has sent its GET at the poll instant.
C6_Witness ==
  \E t \in Tasks :
    /\ task[t].op \in WaitOps /\ task[t].ph = "wire" /\ task[t].blocked
    /\ ~ctxDone[t]
    /\ task[t].sentAt = task[t].due /\ task[t].due > task[t].entered

\* The reg update POST of task t has returned a response without error.
RegUpdateAnswered(t) ==
  task[t].site = "reg" /\ task[t].ph = "ret" /\ task[t].err = NoErr

\* The agreement URI of the registration the server returned.
ServerAgreement(resp) ==
  IF resp.body.agreement = AbsentURL THEN EmptyURL ELSE resp.body.agreement

\* The requests task t has sent that carry an agreement URI.
AgreementPOSTs(t) ==
  {i \in 1..Len(netlog[t]) : netlog[t][i].v.agreement # EmptyURL}

C12_IdentifierIsHostname ==
  \A t \in Tasks :
    (AuthorizationDelivered(t) /\ task[t].op = "NewAuthorization") =>
      az[t].Identifier = [type |-> "dns", value |-> task[t].arg]

\* The status member of an authorization document; none when it is omitted.
ServerStatus(resp) == IF resp.body.status = "absent" THEN "" ELSE resp.body.status

\* Task t returns success from its method in the step taken.
Succeeds(t) == task[t].ph # "idle" /\ task'[t].ph = "idle" /\ task'[t].result = "ok"

\* C13: when a LoadAuthorization or WaitLoadAuthorization returns success, the
\* object's status is the status of the response to the GET of that call.
C13_StatusIsLatest ==
  [][\A t \in Tasks :
       (task[t].op \in {"LoadAuthorization", "WaitLoadAuthorization"}
          /\ task[t].site = "authz" /\ Succeeds(t)) =>
         az'[t].Status = ServerStatus(task[t].got)]_vars

\* The response task t has got is an authorization document with n >= 1
\* challenges and no combinations member.
NoCombinationsSent(t) ==
  /\ task[t].site \in {"newauthz", "authz"} /\ task[t].ph = "ret"
  /\ task[t].got # NoRes /\ task[t].got.body.kind = "obj"
  /\ ~task[t].got.body.combinations.has
  /\ task[t].got.body.challenges.has
  /\ Len(task[t].got.body.challenges.v) >= 1

\* C14: an authorization document with n >= 1 challenges and no combinations
\* member leaves, when the method succeeds, exactly the one combination
\* [0, ..., n-1], whatever combinations the object carried before the call.
C14_DefaultCombination ==
  [][\A t \in Tasks :
       (NoCombinationsSent(t) /\ Succeeds(t)) =>
         LET n == Len(task[t].got.body.challenges.v)
         IN /\ Len(az'[t].Challenges) = n
            /\ az'[t].Combinations = Slice(<<[i \in 1..n |-> i - 1]>>)]_vars

\* A LoadAuthorization on an object that carried the combinations [[0],[1]]
\* has returned success on a document with two challenges and no combinations.
C14_Witness ==
  \E t \in Tasks :
    /\ AuthorizationDelivered(t) /\ task[t].op = "LoadAuthorization"
    /\ task[t].carried = Slice(<< <<0>>, <<1>> >>)
    /\ Len(az[t].Challenges) = 2
    /\ az[t].Combinations = Slice(<< <<0, 1>> >>)

(***************************************************************************)
(* Properties of certificate loading (CertSpec).                            *)
(***************************************************************************)
\* The GET of LoadCertificate by task t has returned a non-error response.
CertificateAnswered(t) ==
  /\ task[t].op = "LoadCertificate" /\ task[t].site = "cert"
  /\ task[t].ph = "ret" /\ task[t].err = NoErr

\* Task t returns an error from its method in the step taken.
Fails(t) ==
  task[t].ph # "idle" /\ task'[t].ph = "idle" /\ task'[t].result \notin {"ok", "none"}

\* C16: on a non-error response LoadCertificate captures an
\* application/pkix-cert body as the leaf and walks the chain from the
\* response's `up` link; fails on any other content type with status 200;
\* and on any other content type with another status succeeds, changing
\* nothing of the certificate but its next-allowed-poll instant.
C16_LoadCertificate ==
  [][\A t \in Tasks :
       (CertificateAnswered(t) /\ task'[t] # task[t]) =>
         LET got == task[t].got
         IN IF got.ct = PkixCert
              THEN /\ crt'[t].Certificate = got.body.der
                   /\ crt'[t].URI = crt[t].URI
                   /\ IF got.up = NoLink
                        THEN Succeeds(t) /\ crt'[t].ExtraCertificates = <<>>
                      ELSE IF Parses(got.up)
                        THEN /\ task'[t].site = "up" /\ task'[t].ph = "wire"
                             /\ task'[t].req.method = "GET"
                             /\ task'[t].req.url.rest = got.up.rest
                             /\ crt'[t].ExtraCertificates = <<>>
                      ELSE Fails(t)
            ELSE IF got.status = 200
              THEN Fails(t) /\ crt'[t] = crt[t]
            ELSE /\ Succeeds(t)
                 /\ crt'[t].Certificate = crt[t].Certificate
                 /\ crt'[t].ExtraCertificates = crt[t].ExtraCertificates
                 /\ crt'[t].URI = crt[t].URI]_vars

\* A LoadCertificate on a certificate that holds a leaf and a chain has
\* returned success from its single GET, answered with no certificate.
C16_Witness ==
  \E t \in Tasks :
    /\ task[t].op = "LoadCertificate" /\ task[t].ph = "idle"
    /\ task[t].result = "ok"
    /\ Len(netlog[t]) = 1
    /\ crt[t].Certificate # "" /\ Len(crt[t].ExtraCertificates) >= 1

(***************************************************************************)
(* Properties of WaitForCertificate (PollSpec, PollFairSpec).               *)
(***************************************************************************)
\* Task t is inside WaitForCertificate.
WaitingForCertificate(t) ==
  task[t].op = "WaitForCertificate" /\ task[t].ph # "idle"

\* C15: WaitForCertificate sends nothing when the leaf is there on entry;
\* it returns success only with a leaf, and an error when a load fails or
\* the context is cancelled; and once the server has served the certificate
\* to it, with the context never cancelled, it eventually returns.
C15_WaitForCertificate ==
  /\ [][\A t \in Tasks :
          /\ (Begins(t, "WaitForCertificate") /\ crt[t].Certificate # "") =>
               /\ task'[t].ph = "idle" /\ task'[t].result = "ok"
               /\ netlog'[t] = <<>>
          /\ (WaitingForCertificate(t) /\ Succeeds(t)) => crt'[t].Certificate # ""
          /\ (WaitingForCertificate(t) /\ task[t].ph = "ret" /\ task[t].err # NoErr
                /\ task'[t] # task[t]) => Fails(t)]_vars
  /\ \A t \in Tasks :
       (WaitingForCertificate(t) /\ crt[t].Certificate # "")
         ~> (task[t].ph = "idle" \/ ctxDone[t])

(***************************************************************************)
(* Properties of the checks at the head of doReqEx (EntrySpec).             *)
(***************************************************************************)
\* The phases in which a call of doReqEx is past its checks.
InFlight == {"sign", "sign2", "head", "wire"}

\* In the step taken, task t calls doReqEx.
CallsDoReqEx(t) ==
  /\ task'[t] # task[t]
  /\ task[t].ph \notin InFlight
  /\ task'[t].ph \in {"sign", "wire", "ret"}

\* In the step taken, the request of task t goes to the HTTP client.
Dispatches(t) == task'[t].ph = "wire" /\ task[t].ph # "wire"

\* The step taken hands nothing of task t's to the HTTP client.
SendsNothing(t) ==
  netlog'[t] = IF task[t].ph = "idle" THEN <<>> ELSE netlog[t]

HTTPSOrTestHTTP(u) ==
  u.scheme = "https" \/ (TestingNoTLS /\ u.scheme = "http")

\* C17: every request dispatched goes to an https URL, or to an http URL
\* under TestingNoTLS; a call of doReqEx with any other URL returns the
\* error "invalid URL" with no nonce taken and nothing dispatched.
C17_OnlyHTTPS ==
  [][\A t \in Tasks :
       /\ Dispatches(t) => HTTPSOrTestHTTP(task'[t].req.url)
       /\ \A i \in 1..Len(netlog'[t]) : HTTPSOrTestHTTP(netlog'[t][i].url)
       /\ (CallsDoReqEx(t) /\ ~HTTPSOrTestHTTP(task'[t].req.url)) =>
            /\ task'[t].ph = "ret" /\ task'[t].err = "invalid URL"
            /\ task'[t].taken = 0
            /\ pool' = pool /\ signedWith' = signedWith
            /\ SendsNothing(t)]_vars

\* Without TestingNoTLS, LoadCertificate has sent its GET of the certificate
\* and the call of doReqEx for the http URL of the `up` link has been rejected.
C17_Witness ==
  \E t \in Tasks :
    /\ ~TestingNoTLS
    /\ task[t].site = "up" /\ task[t].ph = "ret" /\ task[t].err = "invalid URL"
    /\ task[t].req.url.scheme = "http"
    /\ Len(netlog[t]) = 1 /\ netlog[t][1].url.scheme = "https"

\* The key a signed request of task t is to be signed with.
KeyFor(t) ==
  IF task'[t].op \in {"Revoke", "RespondToChallenge"} /\ task'[t].key # NoKey
    THEN task'[t].key
  ELSE AccountInfo.AccountKey

\* C18: Revoke and RespondToChallenge sign with the caller's key when it is
\* given and with the account key otherwise, every other signed request is
\* signed with the account key, and a signed request for which there is no
\* key returns an error with nothing dispatched.
C18_SigningKey ==
  [][\A t \in Tasks :
       /\ (Dispatches(t) /\ Signed(task'[t])) =>
            /\ KeyFor(t) # NoKey
            /\ task'[t].req.key = KeyFor(t)
            /\ netlog'[t][Len(netlog'[t])].key = KeyFor(t)
       /\ (CallsDoReqEx(t) /\ Signed(task'[t]) /\ KeyFor(t) = NoKey) =>
            /\ task'[t].ph = "ret" /\ task'[t].err # NoErr
            /\ task'[t].taken = 0
            /\ pool' = pool /\ signedWith' = signedWith
            /\ SendsNothing(t)]_vars

\* Revoke or RespondToChallenge has gone out signed with the caller's key
\* on a Client that has a different account key.
C18_Witness ==
  \E t \in Tasks :
    /\ task[t].op \in {"Revoke", "RespondToChallenge"} /\ task[t].ph = "wire"
    /\ task[t].key = "ec-p256" /\ AccountInfo.AccountKey = "rsa"
    /\ netlog[t][Len(netlog[t])].key = "ec-p256"

(***************************************************************************)
(* Properties of Status (StatusSpec).                                       *)
(***************************************************************************)
\* Task t has called UnmarshalJSON.
Unmarshalled(t) == task[t].op = "UnmarshalJSON"

\* C19: UnmarshalJSON succeeds exactly on the JSON strings "unknown",
\* "pending", "processing", "valid", "invalid" and "revoked", storing the
\* string, and fails on anything else, storing nothing; a Status is final
\* exactly when it is "valid", "invalid" or "revoked", so a final Status is
\* valid and "pending", "processing" and "unknown" are not final.
C19_Status ==
  /\ \A t \in Tasks :
       Unmarshalled(t) =>
         LET data == task[t].got
             six == data.kind = "string" /\
                    (data.s = "unknown" \/ data.s = "pending" \/ data.s = "processing"
                       \/ data.s = "valid" \/ data.s = "invalid" \/ data.s = "revoked")
         IN /\ task[t].result = "ok" <=> six
            /\ six => ch[t].Status = data.s
  /\ \A t \in Tasks :
       LET s == ch[t].Status
       IN /\ StatusFinal(s) <=> (s = "valid" \/ s = "invalid" \/ s = "revoked")
          /\ StatusFinal(s) => StatusValid(s)
          /\ (s = "pending" \/ s = "processing" \/ s = "unknown") => ~StatusFinal(s)

\* One task has parsed "unknown" successfully and another has been refused
\* "Valid", its Status staying what it was.
C19_Witness ==
  \E t, u \in Tasks :
    /\ Unmarshalled(t) /\ task[t].result = "ok" /\ task[t].got = JSONString("unknown")
    /\ ch[t].Status = "unknown"
    /\ Unmarshalled(u) /\ task[u].result = "not a valid status"
    /\ task[u].got = JSONString("Valid") /\ ch[u].Status = "revoked"

(***************************************************************************)
(* Properties of the directory cache under concurrent callers (DirSpec).    *)
(***************************************************************************)
\* Task t has sent a GET of the directory in the method it runs.
FetchedDirectory(t) ==
  \E i \in 1..Len(netlog[t]) : netlog[t][i] = DirectoryGET(DirectoryURL)

\* Task t is in the first method it calls.
InFirstCall(t) == task[t].ph # "idle" /\ task[t].nops = 1

\* C20: tasks sharing the Client whose first calls run at the same time do
\* not each fetch the directory: at most one of them sends the GET.
C20_DirectoryFetchedOnce ==
  \A t, u \in Tasks :
    (t # u /\ InFirstCall(t) /\ InFirstCall(u)) =>
      ~(FetchedDirectory(t) /\ FetchedDirectory(u))

(***************************************************************************)
(* Properties of failed loads of an authorization (AuthzSpec).              *)
(***************************************************************************)
\* C21: a LoadAuthorization or WaitLoadAuthorization that fails on an
\* Authorization carrying a non-empty Combinations list leaves the object
\* with that list.
C21_FailedLoadKeepsCombinations ==
  [][\A t \in Tasks :
       (task[t].op \in {"LoadAuthorization", "WaitLoadAuthorization"}
          /\ task[t].site = "authz" /\ Fails(t)
          /\ ~task[t].carried.nil /\ Len(task[t].carried.v) > 0) =>
         az'[t].Combinations = task[t].carried]_vars

(***************************************************************************)
(* Properties of the chain a walk leaves (CertSpec).                        *)
(***************************************************************************)
\* The requests for certificates that task t has sent in the method it runs.
CertificateGETs(t) ==
  SelectSeq(netlog[t], LAMBDA w : w.method = "GET" /\ w.url \in CertNodes)

\* Those of them that followed an `up` link: all but LoadCertificate's GET
\* of the certificate itself.
UpGETs(t) ==
  IF task[t].op = "LoadCertificate" THEN Tail(CertificateGETs(t))
  ELSE CertificateGETs(t)

\* Task t has the last response of a walk in hand: a certificate.
WalkAnswered(t) ==
  /\ task[t].op \in {"LoadCertificate", "RequestCertificate"}
  /\ task[t].ph = "ret" /\ task[t].err = NoErr
  /\ task[t].got # NoRes /\ task[t].got.ct = PkixCert

\* C22: when a walk ends in success, ExtraCertificates is the sequence of the
\* certificates the server holds at the URLs of the walk's `up` GETs, in the
\* order of the GETs, and nothing else.
C22_ChainIsTheWalk ==
  [][\A t \in Tasks :
       (WalkAnswered(t) /\ Succeeds(t)) =>
         /\ Len(crt'[t].ExtraCertificates) = Len(UpGETs(t))
         /\ \A i \in 1..Len(UpGETs(t)) :
              crt'[t].ExtraCertificates[i] = UpGETs(t)[i].url.rest]_vars

\* A second method on the certificate has ended a walk over two `up` links:
\* the leaf, then the issuer, then the root.
C22_Witness ==
  \E t \in Tasks :
    /\ task[t].op = "LoadCertificate" /\ task[t].ph = "idle" /\ task[t].result = "ok"
    /\ task[t].nops = 2
    /\ crt[t].Certificate = CertURL.rest
    /\ crt[t].ExtraCertificates = <<IssuerURL.rest, RootURL.rest>>

(***************************************************************************)
(* Properties of the next-allowed-poll instant (RetrySpec).                 *)
(***************************************************************************)
\* The object of task t that the method `op` loads.
Loaded(op, a, c, r) ==
  CASE op = "LoadAuthorization" -> a
    [] op = "LoadChallenge" -> c
    [] OTHER -> r

\* C23: after a successful LoadAuthorization, LoadChallenge or
\* LoadCertificate the object's retryAt is now + n for a Retry-After that is
\* an integer n with 0 <= n < 2^31, the instant given for one that is a date,
\* and now + 10 for one that is absent or of any other form.
C23_RetryAt ==
  /\ parseRetryAfter(RetryInt(ParseUintMax), 0) = [t |-> 2147483647, ok |-> TRUE]
  /\ [][\A t \in Tasks :
          (task[t].op \in {"LoadAuthorization", "LoadChallenge", "LoadCertificate"}
             /\ Succeeds(t)) =>
            LET h == task[t].got.retry
                now == clock'
            IN Loaded(task[t].op, az'[t], ch'[t], crt'[t]).retryAt =
                 CASE h.kind = "int" /\ 0 <= h.n /\ h.n <= 2147483647 -> now + h.n
                   [] h.kind = "date" -> h.n
                   [] OTHER -> now + 10]_vars

\* A load has succeeded some time after the start on a response whose
\* Retry-After is the largest integer of the model, and the object's retryAt
\* is that many seconds from now.
C23_Witness ==
  \E t \in Tasks :
    /\ task[t].op = "LoadChallenge" /\ task[t].ph = "idle" /\ task[t].result = "ok"
    /\ clock > 1
    /\ ch[t].retryAt = clock + LargestDelay

(***************************************************************************)
(* Properties of RespondToChallenge (RespondSpec).                          *)
(***************************************************************************)
\* C24: no step of RespondToChallenge changes the Client's AccountInfo
\* (account key, AgreementURIs, RegistrationURI) or its DirectoryURL,
\* whatever body the server answers with.
C24_RespondKeepsClient ==
  [][(\E t \in Tasks : task[t].op = "RespondToChallenge" /\ task[t].ph # "idle") =>
       (AccountInfo' = AccountInfo /\ DirectoryURL' = DirectoryURL)]_vars

(***************************************************************************)
(* Properties of the chain WaitForCertificate returns (PollSpec).           *)
(***************************************************************************)
\* The chain of c ends at a certificate of the server that has no `up` link.
ChainComplete(c) ==
  LET last == IF c.ExtraCertificates = <<>> THEN c.Certificate
              ELSE c.ExtraCertificates[Len(c.ExtraCertificates)]
  IN \A n \in CertNodes : n.rest = last => server.up[n] = NoLink

\* C25: whenever WaitForCertificate has returned success, the certificate's
\* ExtraCertificates is the chain of a walk that reached a certificate
\* without an `up` link.
C25_ReturnedChainComplete ==
  \A t \in Tasks :
    (task[t].op = "WaitForCertificate" /\ task[t].ph = "idle"
       /\ task[t].result = "ok") => ChainComplete(crt[t])

(***************************************************************************)
(* Properties of the contents of the directory cache (DirSpec).             *)
(***************************************************************************)
\* C26: in every state a directory cache that is not empty holds valid
\* new-registration, new-authorization and new-certificate URLs.
C26_CachedDirectoryValid == dir # NoDir => DirectoryValid(dir)

====
